---- MODULE Spec2Model ----
(***************************************************************************)
(* Model of the mission orchestration core of maestro_backend:             *)
(*   ai_researcher/agentic_layer/async_context_manager.py                  *)
(*     (MissionContext, ExecutionLogEntry, AsyncContextManager)            *)
(*                                                                         *)
(* Modelling conventions                                                   *)
(*  - A Python dict is a TLA+ function whose DOMAIN is the set of keys; an *)
(*    absent key and a key holding None are both "key not in DOMAIN"       *)
(*    (the code reads such fields with dict.get).                          *)
(*  - Text that can carry arbitrary characters (checkpoint payload values) *)
(*    is a sequence of character codes, so that sanitize_for_jsonb is a    *)
(*    real conversion.  Names drawn from fixed vocabularies (statuses,     *)
(*    phases, agent modes) are TLA+ strings.  Reference ids, original and  *)
(*    short, are sequences of character codes too.                         *)
(*  - An Optional value that has to be compared is <<v>> when present and  *)
(*    <<>> when it is None.                                                *)
(*  - Costs are counted in integer cost units, tokens in integer tokens.   *)
(*  - A coroutine runs atomically up to its first real suspension; every   *)
(*    action below is one such atomic stretch.  ok is the outcome of the   *)
(*    store write made by the handler (an exception there is caught and    *)
(*    logged by every handler except start_mission).                       *)
(***************************************************************************)
EXTENDS Integers, Sequences, FiniteSets, TLC

VARIABLES
    missions,            \* AsyncContextManager._missions: id -> MissionContext
    db,                  \* store: id -> persisted mission_context (JSON snapshot)
    mission_stats,       \* AsyncContextManager.mission_stats: id -> running totals
    tracked_calls,       \* AsyncContextManager.tracked_calls: set of call ids
    mission_semaphores,  \* AsyncContextManager._mission_semaphores: id -> reference
                         \*       of an asyncio.Semaphore
    semaphores,          \* the asyncio.Semaphore objects created so far, by reference
    workers,             \* callers of the governor: worker -> frame
    evicted,             \* MissionContext objects removed from memory, by id
    cancel_requests,     \* ids whose tasks were asked to cancel and whose loop to stop
    stats_tasks,         \* id -> number of update_mission_stats callers suspended
                         \*       inside log_execution_step for that mission
    save_tasks,          \* detached save_stats_to_db tasks: set of mission ids
    boot,                \* number of process restarts so far
    last_write_ok,       \* history: id -> outcome of the latest store write for id
    presented,           \* history: call ids presented to update_mission_stats
    expected,            \* history: id -> sum of the increments that had to count
    ncalls,              \* history: number of update_mission_stats calls made
    last_call,           \* history: arguments and result of the latest call of a
                         \*       handler that records them
    raised,              \* history: the handler that ran last raised to its caller
    pending_writes,      \* update_mission_context calls awaited by a handler and not
                         \*       yet applied by the store
    processed,           \* AsyncContextManager._processed_documents_per_mission:
                         \*       id -> set of source keys
    documents,           \* store: the Document records, by document id
    document_groups,     \* store: document group id -> ids of the documents in it
    prepares,            \* prepare_mission_start calls made so far: call -> frame
    last_op              \* history: name of the handler that ran last

vars == <<missions, db, mission_stats, tracked_calls, mission_semaphores,
          semaphores, workers, evicted, cancel_requests,
          stats_tasks, save_tasks, boot, last_write_ok, presented, expected, ncalls,
          last_call, raised, pending_writes, processed, documents, document_groups,
          prepares, last_op>>

(***************************************************************************)
(* Bounds of the model.                                                    *)
(***************************************************************************)
MaxRestarts == 2
MaxCalls == 2

\* asyncio.Semaphore objects created per process
MaxSemaphores == 3

\* store writes awaited at the same time
MaxPending == 2

\* notes held by one mission
MaxNotes == 2

\* entries of one mission's execution log
MaxLog == 2

\* characters of a string given to sanitize_for_jsonb
MaxLen == 2

\* nesting depth of a value given to sanitize_for_jsonb
MaxDepth == 2

\* prepare_mission_start calls made for one mission
MaxPrepares == 2

(***************************************************************************)
(* Python helpers.                                                         *)
(***************************************************************************)
None == "None"

EmptyDict == [k \in {} |-> None]

\* d[k] = v
DictSet(d, k, v) == [x \in DOMAIN d \cup {k} |-> IF x = k THEN v ELSE d[x]]

\* del d[k]
DictDel(d, k) == [x \in DOMAIN d \ {k} |-> d[x]]

\* d.update(u): every key of u is set in d, the other keys of d are kept
DictUpdate(d, u) == [x \in DOMAIN d \cup DOMAIN u |-> IF x \in DOMAIN u THEN u[x] ELSE d[x]]

\* truth value of a dict: a non-empty dict
Truthy(d) == DOMAIN d # {}

\* x in list
InList(x, list) == \E i \in 1..Len(list) : list[i] = x

(***************************************************************************)
(* sanitize_for_jsonb: control characters other than tab, newline and      *)
(* carriage return are removed from every string value; dict keys are left *)
(* as they are.                                                            *)
(***************************************************************************)
IsStrippedChar(c) == (c >= 0 /\ c <= 8) \/ c = 11 \/ c = 12 \/ (c >= 14 /\ c <= 31)

SanitizeText(s) == SelectSeq(s, LAMBDA c : ~IsStrippedChar(c))

\* a checkpoint payload: key -> text
SanitizePayload(p) == [k \in DOMAIN p |-> SanitizeText(p[k])]

\* the phase_checkpoint dict: phase -> payload
SanitizeCheckpoint(pc) == [p \in DOMAIN pc |-> SanitizePayload(pc[p])]

(***************************************************************************)
(* MissionContext as constructed by start_mission.                         *)
(***************************************************************************)
NewMission ==
    [ status |-> "planning",
      plan |-> None,
      final_report |-> None,
      error_info |-> None,
      execution_log |-> <<>>,
      total_cost |-> 0,
      total_tokens |-> [prompt |-> 0, completion |-> 0, native |-> 0],
      total_web_searches |-> 0,
      execution_phase |-> "not_started",
      completed_phases |-> <<>>,
      phase_checkpoint |-> EmptyDict,
      reference_id_map |-> EmptyDict,
      reverse_reference_map |-> EmptyDict,
      reference_counter |-> 0,
      notes |-> <<>>,
      metadata |-> [k \in {"chat_id"} |-> "chat1"] ]

SnapshotWithoutCheckpoint(mission) == [mission EXCEPT !.phase_checkpoint = EmptyDict]

\* sanitize_for_jsonb(mission.model_dump(mode='json')): what a store write carries
Snapshot(mission) ==
    [mission EXCEPT !.phase_checkpoint = SanitizeCheckpoint(mission.phase_checkpoint),
                    !.reference_id_map = SanitizePayload(mission.reference_id_map),
                    !.reverse_reference_map = SanitizePayload(mission.reverse_reference_map)]

\* MissionContext(**migrated_context): validation keeps the JSON strings, lists and
\* dicts of the fields modelled here as they are (_migrate_mission_context only
\* touches notes and metadata)
LoadMission(context) == context

\* crud.update_mission_context inside the handlers' try/except
Persist(m, mission, ok) == IF ok THEN DictSet(db, m, Snapshot(mission)) ELSE db

NoteWrite(m, ok) == DictSet(last_write_ok, m, ok)

(***************************************************************************)
(* Phase scheduling.                                                       *)
(***************************************************************************)
phase_order ==
    << "initial_analysis", "initial_research", "outline_generation",
       "structured_research", "note_preparation", "writing",
       "title_generation", "citation_processing", "completed" >>

\* get_resume_checkpoint: the keys it builds (plan, notes, report sections are
\* not part of this model)
GetResumeCheckpoint(mission) ==
    [ current_phase |-> mission.execution_phase,
      completed_phases |-> mission.completed_phases,
      phase_checkpoint |-> mission.phase_checkpoint,
      last_activity |->
          IF Len(mission.execution_log) > 0
          THEN mission.execution_log[Len(mission.execution_log)]
          ELSE None ]

InProgressIgnoringData(pc, done, p) == p \in DOMAIN pc /\ ~InList(p, done)

InProgressIgnoringCompleted(pc, done, p) == p \in DOMAIN pc /\ Truthy(pc[p])

\* the test of the first loop of get_next_phase
InProgress(pc, done, p) == p \in DOMAIN pc /\ ~InList(p, done) /\ Truthy(pc[p])

\* first loop of get_next_phase, from position i of phase_order on
RECURSIVE FirstInProgress(_, _, _)
FirstInProgress(pc, done, i) ==
    IF i > Len(phase_order) THEN None
    ELSE IF InProgress(pc, done, phase_order[i]) THEN phase_order[i]
    ELSE FirstInProgress(pc, done, i + 1)

\* last loop of get_next_phase, from position i of phase_order on
RECURSIVE FirstUncompleted(_, _)
FirstUncompleted(done, i) ==
    IF i > Len(phase_order) THEN "completed"
    ELSE IF ~InList(phase_order[i], done) THEN phase_order[i]
    ELSE FirstUncompleted(done, i + 1)

NextPhaseWithoutResume(mission) == FirstUncompleted(mission.completed_phases, 1)

NextPhaseResumingCompleted(mission) ==
    LET pc == mission.phase_checkpoint
        held == {i \in 1..Len(phase_order) :
                    phase_order[i] \in DOMAIN pc /\ Truthy(pc[phase_order[i]])}
    IN  IF held # {} THEN phase_order[CHOOSE i \in held : \A j \in held : i <= j]
        ELSE FirstUncompleted(mission.completed_phases, 1)

\* get_next_phase for a mission that is in memory
NextPhaseOf(mission) ==
    LET interrupted == FirstInProgress(mission.phase_checkpoint, mission.completed_phases, 1)
        checkpoint == GetResumeCheckpoint(mission)
    IN  IF interrupted # None THEN interrupted
        ELSE IF "phase" \in DOMAIN checkpoint
                /\ ~InList(checkpoint["phase"], mission.completed_phases)
             THEN checkpoint["phase"]
        ELSE FirstUncompleted(mission.completed_phases, 1)

GetNextPhase(m) == IF m \in DOMAIN missions THEN NextPhaseOf(missions[m]) ELSE None

(***************************************************************************)
(* Initial state: a freshly constructed AsyncContextManager over an empty  *)
(* store.                                                                  *)
(***************************************************************************)
Workers == {"w1", "w2"}

\* a worker that holds no governor handle
IdleWorker == [pc |-> "idle", semaphore |-> 0, mission_id |-> None]

Init ==
    /\ missions = EmptyDict
    /\ db = EmptyDict
    /\ mission_stats = EmptyDict
    /\ tracked_calls = {}
    /\ mission_semaphores = EmptyDict
    /\ semaphores = EmptyDict
    /\ workers = [w \in Workers |-> IdleWorker]
    /\ evicted = EmptyDict
    /\ cancel_requests = {}
    /\ stats_tasks = EmptyDict
    /\ save_tasks = {}
    /\ boot = 0
    /\ last_write_ok = EmptyDict
    /\ presented = {}
    /\ expected = EmptyDict
    /\ ncalls = 0
    /\ last_call = EmptyDict
    /\ raised = FALSE
    /\ pending_writes = {}
    /\ processed = EmptyDict
    /\ documents = EmptyDict
    /\ document_groups = EmptyDict
    /\ prepares = EmptyDict
    /\ last_op = "__init__"

govVars == <<semaphores, workers, evicted, cancel_requests>>

docVars == <<pending_writes, processed, documents, document_groups, prepares>>

statsVars == <<mission_stats, tracked_calls, stats_tasks, save_tasks,
               presented, expected, ncalls, last_call>>

(***************************************************************************)
(* start_mission: the mission gets a fresh uuid; when the store write      *)
(* fails the mission is removed from memory again and the error is raised. *)
(***************************************************************************)
StartMission(m, ok) ==
    /\ last_op' = "start_mission"
    /\ raised' = ~ok
    /\ UNCHANGED docVars
    /\ m \notin DOMAIN missions
    /\ m \notin DOMAIN db
    /\ IF ok
       THEN /\ missions' = DictSet(missions, m, NewMission)
            /\ db' = DictSet(db, m, Snapshot(NewMission))
            /\ last_write_ok' = NoteWrite(m, TRUE)
       ELSE UNCHANGED <<missions, db, last_write_ok>>
    /\ UNCHANGED <<mission_semaphores, boot>>
    /\ UNCHANGED statsVars
    /\ UNCHANGED govVars

(***************************************************************************)
(* update_mission_status                                                   *)
(***************************************************************************)
StatusUpdatedDroppingCheckpoint(mission, status, error_info) ==
    [mission EXCEPT !.status = status,
                    !.error_info = IF status = "failed" THEN error_info ELSE None,
                    !.phase_checkpoint = IF status = "stopped" THEN EmptyDict ELSE @]

StatusUpdated(mission, status, error_info) ==
    [mission EXCEPT !.status = status,
                    !.error_info = IF status = "failed" THEN error_info ELSE None]

UpdateMissionStatus(m, status, error_info, ok) ==
    /\ last_op' = "update_mission_status"
    /\ raised' = FALSE
    /\ UNCHANGED docVars
    /\ IF m \in DOMAIN missions
       THEN /\ missions' = [missions EXCEPT ![m] = StatusUpdated(@, status, error_info)]
            /\ mission_semaphores' =
                   IF status \in {"completed", "failed"} /\ m \in DOMAIN mission_semaphores
                   THEN DictDel(mission_semaphores, m)
                   ELSE mission_semaphores
            /\ db' = Persist(m, missions'[m], ok)
            /\ last_write_ok' = NoteWrite(m, ok)
       ELSE UNCHANGED <<missions, mission_semaphores, db, last_write_ok>>
    /\ UNCHANGED boot
    /\ UNCHANGED statsVars
    /\ UNCHANGED govVars

(***************************************************************************)
(* update_execution_phase                                                  *)
(***************************************************************************)
ExecutionPhaseUpdated(mission, phase, checkpoint_data) ==
    [mission EXCEPT !.execution_phase = phase,
                    !.phase_checkpoint =
                        IF Truthy(checkpoint_data)
                        THEN DictUpdate(@, checkpoint_data)
                        ELSE @]

UpdateExecutionPhase(m, phase, checkpoint_data, ok) ==
    /\ last_op' = "update_execution_phase"
    /\ raised' = FALSE
    /\ UNCHANGED docVars
    /\ IF m \in DOMAIN missions
       THEN /\ missions' = [missions EXCEPT ![m] = ExecutionPhaseUpdated(@, phase, checkpoint_data)]
            /\ db' = Persist(m, missions'[m], ok)
            /\ last_write_ok' = NoteWrite(m, ok)
       ELSE UNCHANGED <<missions, db, last_write_ok>>
    /\ UNCHANGED <<mission_semaphores, boot>>
    /\ UNCHANGED statsVars
    /\ UNCHANGED govVars

(***************************************************************************)
(* mark_phase_completed                                                    *)
(***************************************************************************)
MarkAppendsAlways(mission, phase) == TRUE

\* the test "phase not in mission.completed_phases"
MarkAppends(mission, phase) == ~InList(phase, mission.completed_phases)

MarkPhaseCompleted(m, phase, ok) ==
    /\ last_op' = "mark_phase_completed"
    /\ raised' = FALSE
    /\ UNCHANGED docVars
    /\ IF m \in DOMAIN missions /\ MarkAppends(missions[m], phase)
       THEN /\ missions' = [missions EXCEPT ![m].completed_phases = Append(@, phase)]
            /\ db' = Persist(m, missions'[m], ok)
            /\ last_write_ok' = NoteWrite(m, ok)
       ELSE UNCHANGED <<missions, db, last_write_ok>>
    /\ UNCHANGED <<mission_semaphores, boot>>
    /\ UNCHANGED statsVars
    /\ UNCHANGED govVars

(***************************************************************************)
(* save_phase_checkpoint                                                   *)
(***************************************************************************)
CheckpointSavedReplacing(pc, phase, checkpoint_data) == DictSet(pc, phase, checkpoint_data)

\* phase_checkpoint after "if phase not in ...: ... = {}" and ".update(checkpoint_data)"
CheckpointSaved(pc, phase, checkpoint_data) ==
    LET present == IF phase \in DOMAIN pc THEN pc ELSE DictSet(pc, phase, EmptyDict)
    IN  DictSet(present, phase, DictUpdate(present[phase], checkpoint_data))

SavePhaseCheckpoint(m, phase, checkpoint_data, ok) ==
    /\ last_op' = "save_phase_checkpoint"
    /\ raised' = FALSE
    /\ UNCHANGED docVars
    /\ IF m \in DOMAIN missions
       THEN /\ missions' = [missions EXCEPT ![m].phase_checkpoint =
                                               CheckpointSaved(@, phase, checkpoint_data)]
            /\ db' = Persist(m, missions'[m], ok)
            /\ last_write_ok' = NoteWrite(m, ok)
       ELSE UNCHANGED <<missions, db, last_write_ok>>
    /\ UNCHANGED <<mission_semaphores, boot>>
    /\ UNCHANGED statsVars
    /\ UNCHANGED govVars

(***************************************************************************)
(* log_execution_step, as far as update_mission_stats uses it.             *)
(***************************************************************************)
HaltedStatuses == {"paused", "stopped"}

HaltActions == {"Pause Mission", "Stop Mission", "Resume Mission"}

LogSkippedNever(mission, action) == FALSE

LogSkippedWhenHalted(mission, action) == mission.status \in HaltedStatuses

\* the early return of log_execution_step for a paused or stopped mission
LogSkipped(mission, action) ==
    mission.status \in HaltedStatuses /\ action \notin HaltActions

\* ExecutionLogEntry (log_id and timestamp are not modelled)
LogEntry(agent_name, action, input_summary, output_summary, status) ==
    [ agent_name |-> agent_name, action |-> action, input_summary |-> input_summary,
      output_summary |-> output_summary, status |-> status ]

(***************************************************************************)
(* Stats aggregation.                                                      *)
(***************************************************************************)
\* d.get(k, default)
DictGet(d, k, default) == IF k \in DOMAIN d THEN d[k] ELSE default

\* float(d.get(k)) if d.get(k) is not None else 0.0
Increment(d, k) == IF k \in DOMAIN d THEN d[k] ELSE 0

ZeroStats ==
    [ total_cost |-> 0, total_prompt_tokens |-> 0, total_completion_tokens |-> 0,
      total_native_tokens |-> 0, total_web_search_calls |-> 0 ]

\* get_mission_stats
GetMissionStats(m) == IF m \in DOMAIN mission_stats THEN mission_stats[m] ELSE ZeroStats

\* time.time(): the process clock, which has advanced at every call
ClockNow == 100 + ncalls

\* the call id after lines 1531-1537: the one given, else one synthesized from
\* (model_name, timestamp, duration_sec) unless the update is forced
CallIdOf(d, force) ==
    IF "call_id" \in DOMAIN d THEN <<"given", d["call_id"], 0, 0>>
    ELSE IF ~force
         THEN <<"synthesized", DictGet(d, "model_name", "unknown"),
                DictGet(d, "timestamp", ClockNow), DictGet(d, "duration_sec", 0)>>
    ELSE <<>>

SuppressedNever(call_id, force) == FALSE

\* "not force_update and call_id in self.tracked_calls"
Suppressed(call_id, force) == ~force /\ call_id \in tracked_calls

\* the early return for a usage carrying no figure at all
NothingToCount(d) ==
    /\ "cost" \notin DOMAIN d
    /\ "prompt_tokens" \notin DOMAIN d
    /\ "completion_tokens" \notin DOMAIN d
    /\ "native_total_tokens" \notin DOMAIN d
    /\ DictGet(d, "web_search_count", 0) = 0

NativeAlwaysAdded(stats, d, prompt_total, completion_total) ==
    stats.total_native_tokens + Increment(d, "native_total_tokens")

NativeTotalKept(stats, d, prompt_total, completion_total) == stats.total_native_tokens

\* total_native_tokens after lines 1574-1577, the other totals being updated
NativeTotal(stats, d, prompt_total, completion_total) ==
    IF /\ Increment(d, "native_total_tokens") > 0
       /\ Increment(d, "prompt_tokens") = 0
       /\ Increment(d, "completion_tokens") = 0
    THEN stats.total_native_tokens + Increment(d, "native_total_tokens")
    ELSE IF Increment(d, "prompt_tokens") > 0 \/ Increment(d, "completion_tokens") > 0
         THEN prompt_total + completion_total
    ELSE stats.total_native_tokens

\* the running totals after lines 1563-1577
Accumulated(stats, d) ==
    LET prompt_total == stats.total_prompt_tokens + Increment(d, "prompt_tokens")
        completion_total == stats.total_completion_tokens + Increment(d, "completion_tokens")
    IN  [ total_cost |-> stats.total_cost + Increment(d, "cost"),
          total_prompt_tokens |-> prompt_total,
          total_completion_tokens |-> completion_total,
          total_native_tokens |-> NativeTotal(stats, d, prompt_total, completion_total),
          total_web_search_calls |->
              stats.total_web_search_calls + DictGet(d, "web_search_count", 0) ]

\* non_agent_modes: agent_mode -> (agent_name, action)
non_agent_modes ==
    [ query_preparation |-> <<"QueryPreparer", "Query Preparation">>,
      router |-> <<"Router", "Routing Decision">>,
      query_strategy |-> <<"QueryStrategy", "Strategy Selection">> ]

\* lines 1592-1613: the update has to write an execution-log entry
WantsLog(d, log_queue, update_callback) ==
    /\ Increment(d, "cost") > 0
    /\ log_queue /\ update_callback
    /\ ~DictGet(d, "agent_logged", FALSE)
    /\ DictGet(d, "agent_mode", "unknown") \in DOMAIN non_agent_modes

\* the entry built at lines 1624-1634
StatsLogEntry(d) ==
    LET pair == non_agent_modes[d["agent_mode"]]
    IN  LogEntry(pair[1], pair[2], DictGet(d, "model_name", "unknown"),
                 Increment(d, "prompt_tokens") + Increment(d, "completion_tokens"),
                 "success")

\* lines 1644-1650: the mission's snapshot fields are overwritten by the totals
WithTotals(mission, stats) ==
    [mission EXCEPT !.total_cost = stats.total_cost,
                    !.total_tokens = [ prompt |-> stats.total_prompt_tokens,
                                       completion |-> stats.total_completion_tokens,
                                       native |-> stats.total_native_tokens ],
                    !.total_web_searches = stats.total_web_search_calls]

\* history: the totals the calls made so far have to add up to
Counts(call_id, force) == force \/ call_id \notin presented

\* history: what the latest call was about (its figures and attribution, not
\* the way it identified itself) and whether it was applied
CallRecord(m, d, log_queue, update_callback, applied) ==
    [ mission_id |-> m,
      details |-> [k \in DOMAIN d \ {"call_id", "timestamp", "duration_sec"} |-> d[k]],
      log_queue |-> log_queue, update_callback |-> update_callback, applied |-> applied ]

ZeroExpected == [cost |-> 0, prompt |-> 0, completion |-> 0, web |-> 0]

ExpectedAfter(m, d, call_id, force) ==
    LET old == DictGet(expected, m, ZeroExpected)
    IN  IF Counts(call_id, force)
        THEN DictSet(expected, m,
                 [ cost |-> old.cost + Increment(d, "cost"),
                   prompt |-> old.prompt + Increment(d, "prompt_tokens"),
                   completion |-> old.completion + Increment(d, "completion_tokens"),
                   web |-> old.web + DictGet(d, "web_search_count", 0) ])
        ELSE DictSet(expected, m, old)

(***************************************************************************)
(* update_mission_stats up to its first suspension: the await of           *)
(* log_execution_step suspends the caller only after the entry has been    *)
(* appended, when it opens the store session.                              *)
(***************************************************************************)
UpdateMissionStats(m, d, log_queue, update_callback, force) ==
    /\ last_op' = "update_mission_stats"
    /\ raised' = FALSE
    /\ UNCHANGED docVars
    /\ ncalls < MaxCalls
    /\ ncalls' = ncalls + 1
    /\ IF ~Truthy(d)
       THEN /\ last_call' = CallRecord(m, d, log_queue, update_callback, FALSE)
            /\ UNCHANGED <<missions, mission_stats, tracked_calls, stats_tasks, save_tasks,
                           presented, expected>>
       ELSE
        LET call_id == CallIdOf(d, force)
            stats == Accumulated(GetMissionStats(m), d)
            logs == /\ WantsLog(d, log_queue, update_callback)
                    /\ m \in DOMAIN missions
                    /\ ~LogSkipped(missions[m], non_agent_modes[d["agent_mode"]][2])
        IN  /\ presented' = IF call_id # <<>> THEN presented \cup {call_id} ELSE presented
            /\ expected' = ExpectedAfter(m, d, call_id, force)
            /\ last_call' = CallRecord(m, d, log_queue, update_callback,
                                       ~Suppressed(call_id, force))
            /\ IF Suppressed(call_id, force)
               THEN UNCHANGED <<missions, mission_stats, tracked_calls, stats_tasks, save_tasks>>
               ELSE /\ tracked_calls' =
                          IF call_id # <<>> THEN tracked_calls \cup {call_id} ELSE tracked_calls
                    /\ IF NothingToCount(d)
                       THEN UNCHANGED <<missions, mission_stats, stats_tasks, save_tasks>>
                       ELSE /\ mission_stats' = DictSet(mission_stats, m, stats)
                            /\ IF logs
                               THEN /\ missions' = [missions EXCEPT ![m].execution_log =
                                                        Append(@, StatsLogEntry(d))]
                                    /\ stats_tasks' =
                                          DictSet(stats_tasks, m, DictGet(stats_tasks, m, 0) + 1)
                                    /\ UNCHANGED save_tasks
                               ELSE /\ missions' =
                                          IF m \in DOMAIN missions
                                          THEN [missions EXCEPT ![m] = WithTotals(@, stats)]
                                          ELSE missions
                                    /\ save_tasks' =
                                          IF m \in DOMAIN missions
                                          THEN save_tasks \cup {m} ELSE save_tasks
                                    /\ UNCHANGED stats_tasks
    /\ UNCHANGED <<db, mission_semaphores, boot, last_write_ok>>
    /\ UNCHANGED govVars

(***************************************************************************)
(* update_mission_stats resumed after log_execution_step: the log's store  *)
(* write carries the mission as it is then, after which the totals are     *)
(* copied into the mission and save_stats_to_db is scheduled.              *)
(***************************************************************************)
StatsResume(m, ok) ==
    /\ last_op' = "update_mission_stats_resumed"
    /\ raised' = FALSE
    /\ UNCHANGED docVars
    /\ m \in DOMAIN stats_tasks
    /\ stats_tasks' = IF stats_tasks[m] = 1 THEN DictDel(stats_tasks, m)
                      ELSE DictSet(stats_tasks, m, stats_tasks[m] - 1)
    /\ IF m \in DOMAIN missions
       THEN /\ db' = Persist(m, missions[m], ok)
            /\ last_write_ok' = NoteWrite(m, ok)
            /\ missions' = [missions EXCEPT ![m] = WithTotals(@, mission_stats[m])]
            /\ save_tasks' = save_tasks \cup {m}
       ELSE UNCHANGED <<db, last_write_ok, missions, save_tasks>>
    /\ UNCHANGED <<mission_stats, tracked_calls, mission_semaphores, boot,
                   presented, expected, ncalls, last_call>>
    /\ UNCHANGED govVars

(***************************************************************************)
(* save_stats_to_db: the detached task scheduled by update_mission_stats   *)
(* (tasks scheduled for one mission and not yet run are counted once:      *)
(* each writes the mission as it is when it runs).                         *)
(***************************************************************************)
SaveStatsToDb(m, ok) ==
    /\ last_op' = "save_stats_to_db"
    /\ raised' = FALSE
    /\ UNCHANGED docVars
    /\ m \in save_tasks
    /\ save_tasks' = save_tasks \ {m}
    /\ IF m \in DOMAIN missions
       THEN /\ db' = Persist(m, missions[m], ok)
            /\ last_write_ok' = NoteWrite(m, ok)
       ELSE UNCHANGED <<db, last_write_ok>>
    /\ UNCHANGED <<missions, mission_stats, tracked_calls, mission_semaphores,
                   stats_tasks, boot, presented, expected, ncalls, last_call>>
    /\ UNCHANGED govVars

(***************************************************************************)
(* Reference allocator of a MissionContext.                                *)
(***************************************************************************)
Some(v) == <<v>>

Nothing == <<>>

\* str(n) for n >= 0
RECURSIVE Digits(_)
Digits(n) == IF n < 10 THEN <<48 + n>> ELSE Digits(n \div 10) \o <<48 + (n % 10)>>

\* f"ref{n}"
RefName(n) == <<114, 101, 102>> \o Digits(n)

AllocatesAlways(mission, original_id) == TRUE

\* "original_id not in self.reference_id_map"
Allocates(mission, original_id) == original_id \notin DOMAIN mission.reference_id_map

ReferenceAllocatedForwardOnly(mission, original_id) ==
    [mission EXCEPT !.reference_counter = @ + 1,
                    !.reference_id_map = DictSet(@, original_id,
                                                 RefName(mission.reference_counter + 1))]

\* the body of the if of get_simple_reference_id
ReferenceAllocated(mission, original_id) ==
    LET simple_id == RefName(mission.reference_counter + 1)
    IN  [mission EXCEPT !.reference_counter = @ + 1,
                        !.reference_id_map = DictSet(@, original_id, simple_id),
                        !.reverse_reference_map = DictSet(@, simple_id, original_id)]

\* the mission after get_simple_reference_id(original_id)
WithSimpleReferenceId(mission, original_id) ==
    IF Allocates(mission, original_id)
    THEN ReferenceAllocated(mission, original_id)
    ELSE mission

\* get_original_reference_id: self.reverse_reference_map.get(simple_id)
OriginalReferenceId(mission, simple_id) ==
    IF simple_id \in DOMAIN mission.reverse_reference_map
    THEN Some(mission.reverse_reference_map[simple_id])
    ELSE Nothing

\* mission.get_simple_reference_id(original_id) on the mission held in memory;
\* nothing is written to the store
GetSimpleReferenceId(m, original_id) ==
    /\ last_op' = "get_simple_reference_id"
    /\ raised' = FALSE
    /\ UNCHANGED docVars
    /\ m \in DOMAIN missions
    /\ missions' = [missions EXCEPT ![m] = WithSimpleReferenceId(@, original_id)]
    /\ last_call' = [ mission_id |-> m, original_id |-> original_id,
                      result |-> missions'[m].reference_id_map[original_id] ]
    /\ UNCHANGED <<db, mission_stats, tracked_calls, mission_semaphores, stats_tasks,
                   save_tasks, boot, last_write_ok, presented, expected, ncalls>>
    /\ UNCHANGED govVars

\* mission.get_original_reference_id(simple_id)
GetOriginalReferenceId(m, simple_id) ==
    /\ last_op' = "get_original_reference_id"
    /\ raised' = FALSE
    /\ UNCHANGED docVars
    /\ m \in DOMAIN missions
    /\ last_call' = [ mission_id |-> m, simple_id |-> simple_id,
                      result |-> OriginalReferenceId(missions[m], simple_id) ]
    /\ UNCHANGED <<missions, db, mission_stats, tracked_calls, mission_semaphores,
                   stats_tasks, save_tasks, boot, last_write_ok, presented, expected,
                   ncalls>>
    /\ UNCHANGED govVars

(***************************************************************************)
(* Concurrency governor: get_mission_semaphore and the asyncio.Semaphore   *)
(* it hands out.  A semaphore is kept by reference: a worker that obtained *)
(* one keeps using that object, whatever happens to the governor's map.    *)
(* acquire and release are the ones of asyncio.Semaphore: acquire takes a  *)
(* permit unless the semaphore is locked (no permit left, or waiters       *)
(* queued) and then queues the caller; release hands the permit to the     *)
(* first waiter, or returns it to the pool when nobody waits.              *)
(***************************************************************************)
Max(a, b) == IF a >= b THEN a ELSE b

DefaultLimitHalf(user_max) == IF user_max > 0 THEN user_max \div 2 ELSE 10

\* "max(3, user_max // 2) if user_max > 0 else 10"
DefaultLimit(user_max) == IF user_max > 0 THEN Max(3, user_max \div 2) ELSE 10

\* the capacity of a semaphore created for these arguments
LimitFor(max_concurrent, user_max) ==
    IF max_concurrent = Nothing THEN DefaultLimit(user_max) ELSE max_concurrent[1]

\* asyncio.Semaphore(value); capacity remembers the initial value
NewSemaphore(value) == [capacity |-> value, value |-> value, waiters |-> <<>>]

NeedsSemaphoreAlways(m) == TRUE

\* "mission_id not in self._mission_semaphores"
NeedsSemaphore(m) == m \notin DOMAIN mission_semaphores

\* the reference the next semaphore object gets
NextReference == Cardinality(DOMAIN semaphores) + 1

\* worker w calls get_mission_semaphore(m, max_concurrent); user_max is what
\* get_max_concurrent_requests(m) answers
GetMissionSemaphore(w, m, max_concurrent, user_max) ==
    /\ last_op' = "get_mission_semaphore"
    /\ raised' = FALSE
    /\ UNCHANGED docVars
    /\ workers[w].pc \in {"idle", "ready"}
    /\ IF NeedsSemaphore(m)
       THEN /\ Cardinality(DOMAIN semaphores) < MaxSemaphores
            /\ semaphores' = DictSet(semaphores, NextReference,
                                     NewSemaphore(LimitFor(max_concurrent, user_max)))
            /\ mission_semaphores' = DictSet(mission_semaphores, m, NextReference)
       ELSE UNCHANGED <<semaphores, mission_semaphores>>
    /\ workers' = [workers EXCEPT ![w] = [ pc |-> "ready",
                                           semaphore |-> mission_semaphores'[m],
                                           mission_id |-> m ]]
    /\ last_call' = [ mission_id |-> m, max_concurrent |-> max_concurrent,
                      user_max |-> user_max, result |-> mission_semaphores'[m] ]
    /\ UNCHANGED <<missions, db, mission_stats, tracked_calls, stats_tasks, save_tasks,
                   boot, last_write_ok, presented, expected, ncalls, evicted,
                   cancel_requests>>

\* asyncio.Semaphore.locked
Locked(semaphore) == semaphore.value = 0 \/ semaphore.waiters # <<>>

\* worker w enters "async with semaphore" on the handle it obtained
Acquire(w) ==
    /\ last_op' = "acquire"
    /\ raised' = FALSE
    /\ UNCHANGED docVars
    /\ workers[w].pc = "ready"
    /\ LET ref == workers[w].semaphore
       IN  IF ~Locked(semaphores[ref])
           THEN /\ semaphores' = [semaphores EXCEPT ![ref].value = @ - 1]
                /\ workers' = [workers EXCEPT ![w].pc = "holding"]
           ELSE /\ semaphores' = [semaphores EXCEPT ![ref].waiters = Append(@, w)]
                /\ workers' = [workers EXCEPT ![w].pc = "waiting"]
    /\ UNCHANGED <<missions, db, mission_stats, tracked_calls, mission_semaphores,
                   stats_tasks, save_tasks, boot, last_write_ok, presented, expected,
                   ncalls, last_call, evicted, cancel_requests>>

ReleasedWithoutWakeUp(semaphore) == [semaphore EXCEPT !.value = @ + 1]

\* asyncio.Semaphore.release: value += 1, then _wake_up_next takes the permit
\* again for the first waiter
Released(semaphore) ==
    IF semaphore.waiters # <<>>
    THEN [semaphore EXCEPT !.waiters = Tail(@)]
    ELSE [semaphore EXCEPT !.value = @ + 1]

\* worker w leaves "async with semaphore"
Release(w) ==
    /\ last_op' = "release"
    /\ raised' = FALSE
    /\ UNCHANGED docVars
    /\ workers[w].pc = "holding"
    /\ LET ref == workers[w].semaphore
           after == Released(semaphores[ref])
           woken == IF Len(after.waiters) < Len(semaphores[ref].waiters)
                    THEN {Head(semaphores[ref].waiters)} ELSE {}
       IN  /\ semaphores' = [semaphores EXCEPT ![ref] = after]
           /\ workers' = [x \in Workers |->
                             IF x = w THEN IdleWorker
                             ELSE IF x \in woken THEN [workers[x] EXCEPT !.pc = "holding"]
                             ELSE workers[x]]
    /\ UNCHANGED <<missions, db, mission_stats, tracked_calls, mission_semaphores,
                   stats_tasks, save_tasks, boot, last_write_ok, presented, expected,
                   ncalls, last_call, evicted, cancel_requests>>

(***************************************************************************)
(* remove_mission_from_memory                                              *)
(***************************************************************************)
EvictedKeepingStatus(mission) == mission

\* "mission.status = 'stopped'" on the object that leaves the map
Evicted(mission) == [mission EXCEPT !.status = "stopped"]

\* get_mission_context
GetMissionContext(all_missions, m) ==
    IF m \in DOMAIN all_missions THEN Some(all_missions[m]) ELSE Nothing

RemoveMissionFromMemory(m) ==
    /\ last_op' = "remove_mission_from_memory"
    /\ raised' = FALSE
    /\ UNCHANGED docVars
    /\ IF m \in DOMAIN missions
       THEN /\ evicted' = DictSet(evicted, m, Evicted(missions[m]))
            /\ missions' = DictDel(missions, m)
            /\ mission_semaphores' = DictDel(mission_semaphores, m)
            /\ cancel_requests' = cancel_requests \cup {m}
            /\ last_call' = [mission_id |-> m, result |-> TRUE]
       ELSE /\ last_call' = [mission_id |-> m, result |-> FALSE]
            /\ UNCHANGED <<evicted, missions, mission_semaphores, cancel_requests>>
    /\ UNCHANGED <<db, mission_stats, tracked_calls, stats_tasks, save_tasks, boot,
                   last_write_ok, presented, expected, ncalls, semaphores, workers>>

(***************************************************************************)
(* store_plan                                                              *)
(***************************************************************************)
PlanStored(mission, plan) == [mission EXCEPT !.plan = plan, !.status = "running"]

StorePlan(m, plan, ok) ==
    /\ last_op' = "store_plan"
    /\ raised' = FALSE
    /\ UNCHANGED docVars
    /\ IF m \in DOMAIN missions
       THEN /\ missions' = [missions EXCEPT ![m] = PlanStored(@, plan)]
            /\ db' = Persist(m, missions'[m], ok)
            /\ last_write_ok' = NoteWrite(m, ok)
       ELSE UNCHANGED <<missions, db, last_write_ok>>
    /\ UNCHANGED <<mission_semaphores, boot>>
    /\ UNCHANGED statsVars
    /\ UNCHANGED govVars

(***************************************************************************)
(* store_final_report                                                      *)
(***************************************************************************)
FinalReportStored(mission, report_text) ==
    [mission EXCEPT !.final_report = report_text, !.status = "completed"]

StoreFinalReport(m, report_text, ok) ==
    /\ last_op' = "store_final_report"
    /\ raised' = FALSE
    /\ UNCHANGED docVars
    /\ IF m \in DOMAIN missions
       THEN /\ missions' = [missions EXCEPT ![m] = FinalReportStored(@, report_text)]
            /\ db' = Persist(m, missions'[m], ok)
            /\ last_write_ok' = NoteWrite(m, ok)
       ELSE UNCHANGED <<missions, db, last_write_ok>>
    /\ UNCHANGED <<mission_semaphores, boot>>
    /\ UNCHANGED statsVars
    /\ UNCHANGED govVars

(***************************************************************************)
(* Process restart: a new AsyncContextManager is constructed and           *)
(* async_init loads every persisted mission; coroutines and detached tasks *)
(* of the old process are gone.                                            *)
(***************************************************************************)
Restart ==
    /\ last_op' = "async_init"
    /\ raised' = FALSE
    /\ processed' = EmptyDict
    /\ prepares' = EmptyDict
    /\ UNCHANGED <<pending_writes, documents, document_groups>>
    /\ boot < MaxRestarts
    /\ boot' = boot + 1
    /\ missions' = [m \in DOMAIN db |-> LoadMission(db[m])]
    /\ mission_stats' = EmptyDict
    /\ tracked_calls' = {}
    /\ mission_semaphores' = EmptyDict
    /\ semaphores' = EmptyDict
    /\ workers' = [w \in Workers |-> IdleWorker]
    /\ evicted' = EmptyDict
    /\ cancel_requests' = {}
    /\ stats_tasks' = EmptyDict
    /\ save_tasks' = {}
    /\ presented' = {}
    /\ expected' = EmptyDict
    /\ UNCHANGED <<db, last_write_ok, ncalls, last_call>>

(***************************************************************************)
(* Inputs of the phase-scheduling specification.                           *)
(***************************************************************************)
PhaseMissionIds == {"m1"}

MarkArgs == {"initial_analysis", "initial_research", "outline_generation", "completed"}

CheckpointPhases == {"outline_generation", "structured_research"}

CheckpointKeys == {"a", "b"}

TextA == <<97>>

TextB == <<98>>

\* every dict over a subset of CheckpointKeys with values in texts
Payloads(texts) == UNION {[K -> texts] : K \in SUBSET CheckpointKeys}

PhaseTexts == {TextA, TextB}

\* checkpoint_data of update_execution_phase: nothing, or a dict keyed by a phase
ExecutionCheckpointData ==
    {EmptyDict} \cup {[p \in {"outline_generation"} |-> pl] :
                          pl \in {EmptyDict, [k \in {"b"} |-> TextB]}}

PhaseStatusArgs == {<<"paused", None>>, <<"failed", "boom">>}

StartStep == \E m \in PhaseMissionIds : StartMission(m, TRUE)

StatusStep ==
    \E m \in PhaseMissionIds, a \in PhaseStatusArgs : UpdateMissionStatus(m, a[1], a[2], TRUE)

ExecutionPhaseStep ==
    \E m \in PhaseMissionIds, d \in ExecutionCheckpointData :
        UpdateExecutionPhase(m, "outline_generation", d, TRUE)

MarkStep == \E m \in PhaseMissionIds, p \in MarkArgs : MarkPhaseCompleted(m, p, TRUE)

SaveStep ==
    \E m \in PhaseMissionIds, p \in CheckpointPhases, d \in Payloads(PhaseTexts) :
        SavePhaseCheckpoint(m, p, d, TRUE)

Next == StartStep \/ StatusStep \/ ExecutionPhaseStep \/ MarkStep \/ SaveStep

Spec == Init /\ [][Next]_vars

(***************************************************************************)
(* Properties of the phase scheduler, under Spec.                          *)
(***************************************************************************)
NoDuplicates(list) == \A i, j \in 1..Len(list) : list[i] = list[j] => i = j

IsPrefix(s, t) == Len(s) <= Len(t) /\ \A i \in 1..Len(s) : s[i] = t[i]

\* minimum of a non-empty set of integers
Min(S) == CHOOSE x \in S : \A y \in S : x <= y

\* C1: whatever calls are made, every phase name occurs at most once in
\* completed_phases, and a step only ever extends the list at its end, so the
\* order of first insertion is kept.
C1_CompletedOnceInOrder ==
    [][\A m \in DOMAIN missions' :
          /\ NoDuplicates(missions'[m].completed_phases)
          /\ m \in DOMAIN missions =>
                 IsPrefix(missions[m].completed_phases, missions'[m].completed_phases)]_vars

C1_Witness ==
    /\ "m1" \in DOMAIN missions
    /\ last_op = "mark_phase_completed"
    /\ missions["m1"].completed_phases =
           <<"outline_generation", "completed", "initial_analysis", "initial_research">>

\* the phase the scheduler has to return, stated over the fixed order
ResumablePositions(mission) ==
    {i \in 1..Len(phase_order) :
        /\ ~InList(phase_order[i], mission.completed_phases)
        /\ phase_order[i] \in DOMAIN mission.phase_checkpoint
        /\ DOMAIN mission.phase_checkpoint[phase_order[i]] # {}}

UncompletedPositions(mission) ==
    {i \in 1..Len(phase_order) : ~InList(phase_order[i], mission.completed_phases)}

RequiredNextPhase(mission) ==
    IF ResumablePositions(mission) # {} THEN phase_order[Min(ResumablePositions(mission))]
    ELSE IF UncompletedPositions(mission) # {} THEN phase_order[Min(UncompletedPositions(mission))]
    ELSE "completed"

\* C2: get_next_phase returns the earliest uncompleted phase with a non-empty
\* checkpoint payload if there is one, else the earliest uncompleted phase, else
\* "completed"; with initial_analysis and initial_research completed and a
\* non-empty outline_generation checkpoint it returns outline_generation.
C2_NextPhaseRule ==
    \A m \in DOMAIN missions :
        /\ GetNextPhase(m) = RequiredNextPhase(missions[m])
        /\ ( /\ InList("initial_analysis", missions[m].completed_phases)
             /\ InList("initial_research", missions[m].completed_phases)
             /\ ~InList("outline_generation", missions[m].completed_phases)
             /\ "outline_generation" \in DOMAIN missions[m].phase_checkpoint
             /\ Truthy(missions[m].phase_checkpoint["outline_generation"]) )
           => GetNextPhase(m) = "outline_generation"

C2_Witness ==
    /\ "m1" \in DOMAIN missions
    /\ missions["m1"].completed_phases = <<"initial_analysis", "initial_research">>
    /\ DOMAIN missions["m1"].phase_checkpoint = {"outline_generation", "structured_research"}
    /\ Truthy(missions["m1"].phase_checkpoint["outline_generation"])
    /\ Truthy(missions["m1"].phase_checkpoint["structured_research"])
    /\ GetNextPhase("m1") = "outline_generation"

SomeWorkPhaseIncomplete(mission) ==
    \E i \in 1..(Len(phase_order) - 1) : ~InList(phase_order[i], mission.completed_phases)

\* C3: while some non-terminal phase is incomplete, get_next_phase never returns
\* a completed phase, whatever its checkpoint holds, and no step removes a
\* phase from completed_phases.
C3_NeverRewound ==
    [][\A m \in DOMAIN missions' :
          /\ SomeWorkPhaseIncomplete(missions'[m]) =>
                 ~InList(NextPhaseOf(missions'[m]), missions'[m].completed_phases)
          /\ m \in DOMAIN missions =>
                 \A i \in 1..Len(missions[m].completed_phases) :
                     InList(missions[m].completed_phases[i], missions'[m].completed_phases)]_vars

\* a checkpoint was saved for a phase that was already completed
C3_Witness ==
    /\ "m1" \in DOMAIN missions
    /\ last_op = "save_phase_checkpoint"
    /\ missions["m1"].completed_phases = <<"outline_generation", "initial_analysis">>
    /\ DOMAIN missions["m1"].phase_checkpoint = {"outline_generation"}
    /\ Truthy(missions["m1"].phase_checkpoint["outline_generation"])
    /\ GetNextPhase("m1") = "initial_research"

\* the payload of phase p in pc, empty when p has no entry
PayloadOf(pc, p) == IF p \in DOMAIN pc THEN pc[p] ELSE EmptyDict

\* C5: save_phase_checkpoint(phase, partial) leaves under phase the previous
\* payload with every key of partial overwritten by partial's value, completed
\* phase or not, and leaves the payloads of all other phases as they were.
C5_ShallowMerge ==
    [][\A m \in PhaseMissionIds, p \in CheckpointPhases, d \in Payloads(PhaseTexts) :
          ( /\ last_op' = "save_phase_checkpoint"
            /\ m \in DOMAIN missions
            /\ SavePhaseCheckpoint(m, p, d, TRUE) ) =>
              LET old == missions[m].phase_checkpoint
                  new == missions'[m].phase_checkpoint
              IN  /\ DOMAIN new = DOMAIN old \cup {p}
                  /\ DOMAIN new[p] = DOMAIN PayloadOf(old, p) \cup DOMAIN d
                  /\ \A k \in DOMAIN new[p] :
                         new[p][k] = IF k \in DOMAIN d THEN d[k] ELSE PayloadOf(old, p)[k]
                  /\ \A q \in DOMAIN old \ {p} : new[q] = old[q]]_vars

\* two saves for a completed phase, the second one overwriting nothing of the first
C5_Witness ==
    /\ "m1" \in DOMAIN missions
    /\ last_op = "save_phase_checkpoint"
    /\ InList("outline_generation", missions["m1"].completed_phases)
    /\ DOMAIN missions["m1"].phase_checkpoint = {"outline_generation"}
    /\ missions["m1"].phase_checkpoint["outline_generation"] =
           [k \in {"a", "b"} |-> IF k = "a" THEN TextA ELSE TextB]

\* C6: no step removes a key that was saved under a phase's checkpoint.
C6_ProgressNeverLost ==
    [][\A m \in DOMAIN missions \cap DOMAIN missions' :
          \A p \in DOMAIN missions[m].phase_checkpoint :
              /\ p \in DOMAIN missions'[m].phase_checkpoint
              /\ DOMAIN missions[m].phase_checkpoint[p]
                     \subseteq DOMAIN missions'[m].phase_checkpoint[p]]_vars

\* C7: an uncompleted phase with an empty checkpoint entry is scheduled as if it
\* had no entry.
C7_EmptyCheckpointNotStarted ==
    \A m \in DOMAIN missions :
        \A p \in DOMAIN missions[m].phase_checkpoint :
            ( ~Truthy(missions[m].phase_checkpoint[p])
              /\ ~InList(p, missions[m].completed_phases) )
            => NextPhaseOf(missions[m]) =
                  NextPhaseOf([missions[m] EXCEPT !.phase_checkpoint = DictDel(@, p)])

\* an empty payload was saved for structured_research while earlier phases are open
C7_Witness ==
    /\ "m1" \in DOMAIN missions
    /\ last_op = "save_phase_checkpoint"
    /\ missions["m1"].completed_phases = <<"initial_analysis">>
    /\ DOMAIN missions["m1"].phase_checkpoint = {"structured_research"}
    /\ ~Truthy(missions["m1"].phase_checkpoint["structured_research"])
    /\ GetNextPhase("m1") = "initial_research"

(***************************************************************************)
(* Restart specification: one mission is started, driven through           *)
(* mark_phase_completed and save_phase_checkpoint with store writes that   *)
(* may fail, and the process is restarted at arbitrary points.             *)
(***************************************************************************)
\* "a" followed by the control character 0x01
TextDirty == <<97, 1>>

RestartTexts == {TextA, TextDirty}

RestartMarkArgs == {"initial_analysis", "initial_research"}

RestartStartStep == \E m \in PhaseMissionIds, ok \in BOOLEAN : StartMission(m, ok)

RestartMarkStep ==
    \E m \in PhaseMissionIds, p \in RestartMarkArgs, ok \in BOOLEAN :
        MarkPhaseCompleted(m, p, ok)

RestartSaveStep ==
    \E m \in PhaseMissionIds, d \in Payloads(RestartTexts), ok \in BOOLEAN :
        SavePhaseCheckpoint(m, "outline_generation", d, ok)

NextRestart == RestartStartStep \/ RestartMarkStep \/ RestartSaveStep \/ Restart

SpecRestart == Init /\ [][NextRestart]_vars

\* C4 as stated: after a restart, a mission whose last store write succeeded has
\* the same completed_phases and the same phase_checkpoint as before, and
\* get_next_phase returns the same phase.
C4_RestartSameState ==
    [][last_op' = "async_init" =>
          \A m \in DOMAIN missions :
              last_write_ok[m] =>
                  /\ m \in DOMAIN missions'
                  /\ missions'[m].completed_phases = missions[m].completed_phases
                  /\ missions'[m].phase_checkpoint = missions[m].phase_checkpoint
                  /\ NextPhaseOf(missions'[m]) = NextPhaseOf(missions[m])]_vars

\* C4, amended: after a restart, a mission whose last store write succeeded has
\* the same completed_phases, a phase_checkpoint with the same phases and keys
\* whose texts are the old ones with control characters removed, and
\* get_next_phase returns the same phase.
C4_RestartTransparent ==
    [][last_op' = "async_init" =>
          \A m \in DOMAIN missions :
              last_write_ok[m] =>
                  /\ m \in DOMAIN missions'
                  /\ missions'[m].completed_phases = missions[m].completed_phases
                  /\ DOMAIN missions'[m].phase_checkpoint = DOMAIN missions[m].phase_checkpoint
                  /\ \A p \in DOMAIN missions[m].phase_checkpoint :
                         /\ DOMAIN missions'[m].phase_checkpoint[p]
                                = DOMAIN missions[m].phase_checkpoint[p]
                         /\ \A k \in DOMAIN missions[m].phase_checkpoint[p] :
                                missions'[m].phase_checkpoint[p][k]
                                   = SelectSeq(missions[m].phase_checkpoint[p][k],
                                               LAMBDA c : c \in {9, 10, 13} \/ c > 31)
                  /\ NextPhaseOf(missions'[m]) = NextPhaseOf(missions[m])]_vars

\* restarted after completing analysis and research and checkpointing mid-outline
C4_Witness ==
    /\ last_op = "async_init"
    /\ "m1" \in DOMAIN missions
    /\ last_write_ok["m1"]
    /\ missions["m1"].completed_phases = <<"initial_analysis", "initial_research">>
    /\ "outline_generation" \in DOMAIN missions["m1"].phase_checkpoint
    /\ DOMAIN missions["m1"].phase_checkpoint["outline_generation"] = {"a", "b"}
    /\ GetNextPhase("m1") = "outline_generation"

(***************************************************************************)
(* The stats aggregator under concurrent callers: mission "m1" can be      *)
(* started, paused and resumed; "gone" is an id that is never in memory    *)
(* (ids are uuids drawn by start_mission, so a caller holds the id of a    *)
(* started mission or an id no mission has).  Costs and token counts are   *)
(* whole units.                                                            *)
(***************************************************************************)
StatsMissionIds == {"m1", "gone"}

\* the figures and attribution of a usage
StatsUsages ==
    { [ cost |-> 2, prompt_tokens |-> 10, completion_tokens |-> 5,
        native_total_tokens |-> 15, agent_mode |-> "router", model_name |-> "gpt" ],
      [ cost |-> 1, prompt_tokens |-> 20, completion_tokens |-> 0,
        agent_mode |-> "writing" ],
      [ native_total_tokens |-> 7, agent_mode |-> "query_strategy" ],
      [ cost |-> 1, web_search_count |-> 1, agent_mode |-> "query_preparation",
        agent_logged |-> TRUE ],
      [ model_name |-> "gpt" ],
      EmptyDict }

\* how a usage identifies itself: by call id, by timestamp only, or not at all
StatsKeys ==
    { [k \in {"call_id"} |-> "c1"], [k \in {"timestamp"} |-> 1], EmptyDict }

StatsStatusArgs == {<<"paused", None>>}

StatsStartStep == StartMission("m1", TRUE)

StatsStatusStep ==
    \E a \in StatsStatusArgs : UpdateMissionStatus("m1", a[1], a[2], TRUE)

StatsUpdateStep ==
    \E m \in DOMAIN missions \cup {"gone"}, u \in StatsUsages,
       k \in StatsKeys, callbacks \in BOOLEAN, force \in BOOLEAN :
        UpdateMissionStats(m, IF Truthy(u) THEN DictUpdate(u, k) ELSE u,
                           callbacks, callbacks, force)

StatsResumeStep == \E m \in StatsMissionIds : StatsResume(m, TRUE)

StatsSaveStep == \E m \in StatsMissionIds : SaveStatsToDb(m, TRUE)

NextStats ==
    \/ StatsStartStep
    \/ StatsStatusStep
    \/ StatsUpdateStep
    \/ StatsResumeStep
    \/ StatsSaveStep

SpecStats == Init /\ [][NextStats]_vars

(***************************************************************************)
(* Claims about the stats aggregator.                                      *)
(***************************************************************************)
StatsIn(all_stats, m) == IF m \in DOMAIN all_stats THEN all_stats[m] ELSE ZeroStats

\* C8: idempotent usage accounting.  The running cost, prompt, completion and
\* web-search totals of every mission equal the sums of the increments of
\* exactly the calls that were forced or were the first of the process to
\* present their call id, and so do the mission's own total fields as soon as
\* no caller for that mission is still suspended inside its audit log write.
C8_IdempotentAccounting ==
    \A m \in StatsMissionIds :
        LET stats == StatsIn(mission_stats, m)
            e == DictGet(expected, m, ZeroExpected)
        IN  /\ stats.total_cost = e.cost
            /\ stats.total_prompt_tokens = e.prompt
            /\ stats.total_completion_tokens = e.completion
            /\ stats.total_web_search_calls = e.web
            /\ (m \in DOMAIN missions /\ m \notin DOMAIN stats_tasks) =>
                   /\ missions[m].total_cost = e.cost
                   /\ missions[m].total_tokens.prompt = e.prompt
                   /\ missions[m].total_tokens.completion = e.completion
                   /\ missions[m].total_web_searches = e.web

\* a second call that carried a cost was suppressed as a repeat, and the
\* mission's total is still the first call's
C8_Witness ==
    /\ last_op = "update_mission_stats"
    /\ ncalls = 2
    /\ ~last_call.applied
    /\ last_call.mission_id = "m1"
    /\ Increment(last_call.details, "cost") = 2
    /\ "m1" \in DOMAIN missions
    /\ missions["m1"].total_cost = 2
    /\ StatsIn(mission_stats, "m1").total_cost = 2

\* C9: the native-token rule.  For each applied usage: a call with zero prompt
\* and completion and a positive native figure adds that figure to the running
\* native total; a call with a nonzero prompt or completion makes the running
\* native total the running prompt plus the running completion; any other call
\* leaves it unchanged.
C9_NativeTokenRule ==
    [][ (last_op' = "update_mission_stats" /\ last_call'.applied) =>
          LET d == last_call'.details
              old == StatsIn(mission_stats, last_call'.mission_id)
              new == StatsIn(mission_stats', last_call'.mission_id)
              p == Increment(d, "prompt_tokens")
              q == Increment(d, "completion_tokens")
              n == Increment(d, "native_total_tokens")
          IN  IF p = 0 /\ q = 0 /\ n > 0
              THEN new.total_native_tokens = old.total_native_tokens + n
              ELSE IF p # 0 \/ q # 0
                   THEN new.total_native_tokens =
                            new.total_prompt_tokens + new.total_completion_tokens
              ELSE new.total_native_tokens = old.total_native_tokens ]_vars

\* (prompt 10, completion 5) then (prompt 20, completion 0): native total 35
C9_Witness ==
    /\ last_op = "update_mission_stats"
    /\ ncalls = 2
    /\ last_call.applied
    /\ last_call.mission_id = "m1"
    /\ Increment(last_call.details, "prompt_tokens") = 20
    /\ StatsIn(mission_stats, "m1").total_prompt_tokens = 30
    /\ StatsIn(mission_stats, "m1").total_completion_tokens = 5
    /\ StatsIn(mission_stats, "m1").total_native_tokens = 35

\* a usage the aggregator has to audit: it costs something, its operation kind
\* is query preparation, routing or strategy selection, and its caller did not
\* log it
Billable(d) ==
    /\ Increment(d, "cost") > 0
    /\ DictGet(d, "agent_mode", "unknown") \in {"query_preparation", "router", "query_strategy"}
    /\ ~DictGet(d, "agent_logged", FALSE)

AuditAgents ==
    [ query_preparation |-> "QueryPreparer", router |-> "Router",
      query_strategy |-> "QueryStrategy" ]

\* after is before plus one entry summarizing usage d
AuditAppended(before, after, d) ==
    /\ Len(after) = Len(before) + 1
    /\ SubSeq(after, 1, Len(before)) = before
    /\ after[Len(after)].agent_name = AuditAgents[d["agent_mode"]]
    /\ after[Len(after)].input_summary = DictGet(d, "model_name", "unknown")
    /\ after[Len(after)].output_summary =
           Increment(d, "prompt_tokens") + Increment(d, "completion_tokens")
    /\ after[Len(after)].status = "success"

LogsUntouched ==
    \A m \in DOMAIN missions :
        m \in DOMAIN missions' /\ missions'[m].execution_log = missions[m].execution_log

RefMissionIds == {"m1", "m2"}

DocA == <<100, 97>>

DocB == <<100, 98>>

OriginalIds == {DocA, DocB, RefName(2)}

SimpleIds == {RefName(1), RefName(2), RefName(3), RefName(4), DocA}

RefStartStep == \E m \in RefMissionIds : StartMission(m, TRUE)

RefSimpleStep == \E m \in RefMissionIds, x \in OriginalIds : GetSimpleReferenceId(m, x)

RefOriginalStep == \E m \in RefMissionIds, r \in SimpleIds : GetOriginalReferenceId(m, r)

NextRefs == RefStartStep \/ RefSimpleStep \/ RefOriginalStep

SpecRefs == Init /\ [][NextRefs]_vars

\* C11: reference round trip and idempotence.  simple_id(x) returns the short
\* id x already has whenever it has one, the short id it returns maps back to
\* x, an assignment once made stays as it is, and original_id of a short id
\* that no original has been given returns none.
C11_RoundTripIdempotent ==
    [][ /\ \A m \in DOMAIN missions : \A x \in DOMAIN missions[m].reference_id_map :
              /\ m \in DOMAIN missions'
              /\ x \in DOMAIN missions'[m].reference_id_map
              /\ missions'[m].reference_id_map[x] = missions[m].reference_id_map[x]
        /\ last_op' = "get_simple_reference_id" =>
              LET m == last_call'.mission_id
                  x == last_call'.original_id
              IN  /\ x \in DOMAIN missions[m].reference_id_map =>
                         last_call'.result = missions[m].reference_id_map[x]
                  /\ OriginalReferenceId(missions'[m], last_call'.result) = Some(x)
        /\ last_op' = "get_original_reference_id" =>
              LET m == last_call'.mission_id
                  r == last_call'.simple_id
                  given == {x \in DOMAIN missions[m].reference_id_map :
                               missions[m].reference_id_map[x] = r}
              IN  /\ given = {} => last_call'.result = Nothing
                  /\ \A x \in given : last_call'.result = Some(x) ]_vars

\* an original asked again after another one was allocated still gets "ref1"
C11_Witness ==
    /\ last_op = "get_simple_reference_id"
    /\ last_call.mission_id = "m1"
    /\ last_call.original_id = DocA
    /\ last_call.result = RefName(1)
    /\ missions["m1"].reference_counter = 2

\* the short ids ref1 .. refN
ShortIds(n) == {RefName(i) : i \in 1..n}

RefMapsConsistent(mission) ==
    LET fwd == mission.reference_id_map
        rev == mission.reverse_reference_map
    IN  /\ \A x \in DOMAIN fwd : fwd[x] \in DOMAIN rev /\ rev[fwd[x]] = x
        /\ \A r \in DOMAIN rev : rev[r] \in DOMAIN fwd /\ fwd[rev[r]] = r
        /\ DOMAIN rev = ShortIds(mission.reference_counter)
        /\ Cardinality(DOMAIN fwd) = mission.reference_counter

\* C12: the reference-map invariant.  The forward and reverse maps of every
\* mission are mutually inverse, the allocated short ids are exactly
\* ref1 .. refN with N the counter and the number of originals seen, the
\* counter never decreases and no assignment is ever changed or dropped.
C12_ReferenceMapInvariant ==
    [][ \A m \in DOMAIN missions :
          /\ RefMapsConsistent(missions[m])
          /\ m \in DOMAIN missions'
          /\ RefMapsConsistent(missions'[m])
          /\ missions'[m].reference_counter >= missions[m].reference_counter
          /\ \A x \in DOMAIN missions[m].reference_id_map :
                /\ x \in DOMAIN missions'[m].reference_id_map
                /\ missions'[m].reference_id_map[x] = missions[m].reference_id_map[x]
          /\ \A r \in DOMAIN missions[m].reverse_reference_map :
                /\ r \in DOMAIN missions'[m].reverse_reference_map
                /\ missions'[m].reverse_reference_map[r] =
                       missions[m].reverse_reference_map[r] ]_vars

\* three originals, one of them spelled like a short id, hold ref1 .. ref3
C12_Witness ==
    /\ "m1" \in DOMAIN missions
    /\ missions["m1"].reference_counter = 3
    /\ DOMAIN missions["m1"].reference_id_map = OriginalIds
    /\ missions["m1"].reference_id_map[RefName(2)] = RefName(1)
    /\ missions["m1"].reverse_reference_map[RefName(1)] = RefName(2)

(***************************************************************************)
(* The governor: two workers obtain, acquire and release governor handles  *)
(* for mission "m1", which is started, paused, resumed, completed and      *)
(* evicted, and for "m2", an id no mission in memory has.                  *)
(***************************************************************************)
GovMissionIds == {"m1", "m2"}

GovLimits == {Some(1), Some(2)}

GovUserMax == {4}

GovStatusArgs == {<<"running", None>>, <<"paused", None>>, <<"completed", None>>}

GovStartStep == StartMission("m1", TRUE)

GovGetStep ==
    \E w \in Workers, m \in GovMissionIds, limit \in GovLimits, user_max \in GovUserMax :
        GetMissionSemaphore(w, m, limit, user_max)

GovAcquireStep == \E w \in Workers : Acquire(w)

GovReleaseStep == \E w \in Workers : Release(w)

GovStatusStep == \E a \in GovStatusArgs : UpdateMissionStatus("m1", a[1], a[2], TRUE)

GovEvictStep == RemoveMissionFromMemory("m1")

NextGov ==
    \/ GovStartStep
    \/ GovGetStep
    \/ GovAcquireStep
    \/ GovReleaseStep
    \/ GovStatusStep
    \/ GovEvictStep

SpecGov == Init /\ [][NextGov]_vars

\* the workers holding a permit they obtained through the handle of mission m
Holders(m) == {w \in Workers : workers[w].pc = "holding" /\ workers[w].mission_id = m}

\* C13: the per-mission concurrency bound.  The number of workers holding a
\* permit obtained through a mission's governor handle never exceeds the
\* mission's limit (taken here as the largest capacity of the pools those
\* permits come from).
C13_ConcurrencyBound ==
    \A m \in GovMissionIds :
        Holders(m) # {} =>
            \E w \in Holders(m) :
                Cardinality(Holders(m)) <= semaphores[workers[w].semaphore].capacity

\* C16: the governor handle is created once and cached.  While a mission keeps
\* its pool, the pool is the same object with the capacity of its creation; a
\* call for a mission that has a pool returns that pool whatever limit it
\* carries, and no call touches the pool of another mission.
C16_HandleCached ==
    [][ /\ \A m \in DOMAIN mission_semaphores :
              m \in DOMAIN mission_semaphores' =>
                  mission_semaphores'[m] = mission_semaphores[m]
        /\ \A ref \in DOMAIN semaphores :
              /\ ref \in DOMAIN semaphores'
              /\ semaphores'[ref].capacity = semaphores[ref].capacity
        /\ last_op' = "get_mission_semaphore" =>
              LET m == last_call'.mission_id
              IN  /\ m \in DOMAIN mission_semaphores =>
                         /\ last_call'.result = mission_semaphores[m]
                         /\ semaphores' = semaphores
                  /\ \A other \in DOMAIN mission_semaphores \ {m} :
                         /\ other \in DOMAIN mission_semaphores'
                         /\ mission_semaphores'[other] = mission_semaphores[other] ]_vars

\* a call carrying limit 2 got the pool created with limit 1, while the other
\* mission has a pool of its own
C16_Witness ==
    /\ last_op = "get_mission_semaphore"
    /\ last_call.mission_id = "m1"
    /\ last_call.max_concurrent = Some(2)
    /\ semaphores[last_call.result].capacity = 1
    /\ "m2" \in DOMAIN mission_semaphores
    /\ mission_semaphores["m2"] # last_call.result

(***************************************************************************)
(* The mission lifecycle: mission "m1" is started, moved between statuses, *)
(* given a plan and a final report and evicted, while workers obtain       *)
(* governor handles for it and for "m2", an id no mission in memory has.   *)
(***************************************************************************)
LifeMissionIds == {"m1", "m2"}

LifeStatusArgs ==
    { <<"running", None>>, <<"paused", None>>, <<"completed", None>>,
      <<"failed", "boom">>, <<"stopped", None>> }

LifeStartStep == StartMission("m1", TRUE)

LifeGetStep ==
    \E w \in Workers, m \in LifeMissionIds : GetMissionSemaphore(w, m, Some(1), 4)

LifeStatusStep == \E a \in LifeStatusArgs : UpdateMissionStatus("m1", a[1], a[2], TRUE)

LifePlanStep == StorePlan("m1", "plan1", TRUE)

LifeReportStep == StoreFinalReport("m1", "report1", TRUE)

LifeEvictStep == \E m \in LifeMissionIds : RemoveMissionFromMemory(m)

NextLife ==
    \/ LifeStartStep
    \/ LifeGetStep
    \/ LifeStatusStep
    \/ LifePlanStep
    \/ LifeReportStep
    \/ LifeEvictStep

SpecLife == Init /\ [][NextLife]_vars

TerminalStatuses == {"completed", "failed", "stopped"}

\* C14: governor teardown on terminal status.  When update_mission_status or
\* store_final_report leaves a mission completed, failed or stopped, or
\* remove_mission_from_memory evicts it, the mission has no permit pool in the
\* governor when the operation returns.
C14_TeardownOnTerminal ==
    [][ \A m \in DOMAIN missions :
          \/ m \notin DOMAIN missions'
          \/ /\ last_op' \in {"update_mission_status", "store_final_report"}
             /\ missions'[m] # missions[m]
             /\ missions'[m].status \in TerminalStatuses
          => m \notin DOMAIN mission_semaphores' ]_vars

\* C18: terminal statuses are absorbing.  Once a mission is completed, failed
\* or stopped, no operation other than update_mission_status changes its
\* status.
C18_TerminalAbsorbing ==
    [][ \A m \in DOMAIN missions :
          ( /\ missions[m].status \in TerminalStatuses
            /\ m \in DOMAIN missions'
            /\ last_op' # "update_mission_status" )
          => missions'[m].status = missions[m].status ]_vars

\* C19: error info is tied to failure.  A mission's error_info is set only
\* while its status is failed.
C19_ErrorOnlyWhenFailed ==
    \A m \in DOMAIN missions :
        missions[m].error_info # None => missions[m].status = "failed"

\* C20: evict postconditions.  remove_mission_from_memory on a known id leaves
\* the mission object stopped, the governor without a pool for the id, the
\* cancellation of the mission's tasks requested, the id unknown to a following
\* get, and returns true; on an unknown id it returns false and changes
\* nothing.
C20_EvictPostconditions ==
    [][ last_op' = "remove_mission_from_memory" =>
          LET m == last_call'.mission_id
          IN  IF m \in DOMAIN missions
              THEN /\ m \in DOMAIN evicted'
                   /\ evicted'[m] = [missions[m] EXCEPT !.status = "stopped"]
                   /\ m \notin DOMAIN mission_semaphores'
                   /\ m \in cancel_requests'
                   /\ GetMissionContext(missions', m) = Nothing
                   /\ last_call'.result = TRUE
                   /\ \A other \in DOMAIN missions \ {m} :
                          GetMissionContext(missions', other) = Some(missions[other])
              ELSE /\ last_call'.result = FALSE
                   /\ UNCHANGED <<missions, db, mission_stats, tracked_calls,
                                  mission_semaphores, semaphores, workers, evicted,
                                  cancel_requests, stats_tasks, save_tasks>> ]_vars

\* a running mission with a governor pool has just been evicted
C20_Witness ==
    /\ last_op = "remove_mission_from_memory"
    /\ last_call.mission_id = "m1"
    /\ last_call.result = TRUE
    /\ "m1" \notin DOMAIN missions
    /\ "m1" \in DOMAIN evicted
    /\ evicted["m1"].status = "stopped"
    /\ evicted["m1"].plan = "plan1"
    /\ "m1" \in cancel_requests
    /\ \E w \in Workers : workers[w].mission_id = "m1" /\ workers[w].pc = "ready"
    /\ "m1" \notin DOMAIN mission_semaphores

(***************************************************************************)
(* The capacity of new pools: a worker asks for handles with and without a *)
(* limit, under every answer of get_max_concurrent_requests listed; the    *)
(* pool of "m1" is torn down by completing the mission, so that pools are  *)
(* created again.                                                          *)
(***************************************************************************)
LimitArgs == {Nothing, Some(5)}

UserMaxAnswers == {-1, 0, 1, 4, 5, 6, 7, 8, 20}

LimitStartStep == StartMission("m1", TRUE)

LimitGetStep ==
    \E m \in GovMissionIds, limit \in LimitArgs, user_max \in UserMaxAnswers :
        GetMissionSemaphore("w1", m, limit, user_max)

LimitStatusStep == UpdateMissionStatus("m1", "completed", None, TRUE)

NextLimit == LimitStartStep \/ LimitGetStep \/ LimitStatusStep

SpecLimit == Init /\ [][NextLimit]_vars

\* floor(n / 2) for n >= 0
FloorHalf(n) == CHOOSE k \in 0..n : 2 * k <= n /\ n < 2 * k + 2

\* C15: the default governor limit.  A pool created without a limit has
\* capacity max(3, floor(global_user_max / 2)) when global_user_max > 0 and 10
\* otherwise (4 gives 3, 1 gives 3, 20 gives 10, 0 gives 10); a pool created
\* with a limit has that limit as its capacity.
C15_DefaultLimit ==
    [][ ( /\ last_op' = "get_mission_semaphore"
          /\ last_call'.mission_id \notin DOMAIN mission_semaphores ) =>
          LET capacity == semaphores'[last_call'.result].capacity
              limit == last_call'.max_concurrent
              user_max == last_call'.user_max
          IN  /\ limit # Nothing => capacity = limit[1]
              /\ (limit = Nothing /\ user_max <= 0) => capacity = 10
              /\ (limit = Nothing /\ user_max > 0) =>
                     /\ capacity >= 3
                     /\ capacity >= FloorHalf(user_max)
                     /\ capacity \in {3, FloorHalf(user_max)}
              /\ (limit = Nothing /\ user_max = 4) => capacity = 3
              /\ (limit = Nothing /\ user_max = 1) => capacity = 3
              /\ (limit = Nothing /\ user_max = 20) => capacity = 10
              /\ (limit = Nothing /\ user_max = 0) => capacity = 10 ]_vars

\* pools created without a limit under the answers 4 and 20, and one created
\* with limit 5
C15_Witness ==
    /\ last_op = "get_mission_semaphore"
    /\ last_call.max_concurrent = Nothing
    /\ last_call.user_max = 20
    /\ semaphores[last_call.result].capacity = 10
    /\ \E ref \in DOMAIN semaphores : semaphores[ref].capacity = 3
    /\ \E ref \in DOMAIN semaphores : semaphores[ref].capacity = 5

(***************************************************************************)
(* Acquire liveness: the workers contend for pools of capacity 1 of        *)
(* mission "m1" while the mission is completed or evicted under them.  A   *)
(* worker that holds a permit eventually leaves its "async with" block.    *)
(***************************************************************************)
FairGetStep == \E w \in Workers : GetMissionSemaphore(w, "m1", Some(1), 4)

FairStatusStep == UpdateMissionStatus("m1", "completed", None, TRUE)

NextFair ==
    \/ GovStartStep
    \/ FairGetStep
    \/ GovAcquireStep
    \/ GovReleaseStep
    \/ FairStatusStep
    \/ GovEvictStep

SpecGovFair ==
    Init /\ [][NextFair]_vars /\ \A w \in Workers : WF_vars(Release(w))

StopStatusArgs == {"running", "paused", "stopped"}

StopStartStep == StartMission("m1", TRUE)

StopMarkStep == \E ok \in BOOLEAN : MarkPhaseCompleted("m1", "initial_analysis", ok)

StopSaveStep ==
    \E d \in Payloads(RestartTexts), ok \in BOOLEAN :
        SavePhaseCheckpoint("m1", "outline_generation", d, ok)

StopStatusStep ==
    \E status \in StopStatusArgs, ok \in BOOLEAN : UpdateMissionStatus("m1", status, None, ok)

StopEvictStep == RemoveMissionFromMemory("m1")

NextStop ==
    \/ StopStartStep
    \/ StopMarkStep
    \/ StopSaveStep
    \/ StopStatusStep
    \/ StopEvictStep

SpecStop == Init /\ [][NextStop]_vars

\* the progress record of a mission object or of a persisted snapshot
Progress(mission) ==
    [ completed_phases |-> mission.completed_phases,
      phase_checkpoint |-> mission.phase_checkpoint ]

\* the step is update_mission_status(m, 'stopped') on a mission in memory
StopsMission(m) ==
    /\ last_op' = "update_mission_status"
    /\ m \in DOMAIN missions
    /\ missions'[m].status = "stopped"

\* the step is remove_mission_from_memory(m) on a mission in memory
EvictsMission(m) ==
    /\ last_op' = "remove_mission_from_memory"
    /\ last_call'.mission_id = m
    /\ m \in DOMAIN missions

\* C21 as stated: update_mission_status(id, stopped) and
\* remove_mission_from_memory(id) leave completed_phases and phase_checkpoint,
\* in the mission object and in the persisted snapshot, exactly as they were
\* before the call.
C21_ProgressExactlyAsBefore ==
    [][ \A m \in DOMAIN missions :
          /\ StopsMission(m) =>
                /\ Progress(missions'[m]) = Progress(missions[m])
                /\ Progress(db'[m]) = Progress(db[m])
          /\ EvictsMission(m) =>
                /\ Progress(evicted'[m]) = Progress(missions[m])
                /\ Progress(db'[m]) = Progress(db[m]) ]_vars

\* C21, amended: both calls leave completed_phases and phase_checkpoint of the
\* mission object as they were; eviction leaves the persisted snapshot as it
\* was, and after a stop the persisted snapshot holds what it held before when
\* the stop's store write failed, and the scrubbed copy of the object's
\* progress record when it succeeded.
C21_ProgressPreserved ==
    [][ \A m \in DOMAIN missions :
          /\ StopsMission(m) =>
                /\ Progress(missions'[m]) = Progress(missions[m])
                /\ Progress(db'[m]) = IF last_write_ok'[m]
                                      THEN Progress(Snapshot(missions[m]))
                                      ELSE Progress(db[m])
          /\ EvictsMission(m) =>
                /\ Progress(evicted'[m]) = Progress(missions[m])
                /\ db' = db ]_vars

\* a mission with a completed phase and a checkpoint holding a control
\* character has just been stopped with a store write that succeeded
C21_Witness ==
    /\ last_op = "update_mission_status"
    /\ "m1" \in DOMAIN missions
    /\ missions["m1"].status = "stopped"
    /\ missions["m1"].completed_phases = <<"initial_analysis">>
    /\ "outline_generation" \in DOMAIN missions["m1"].phase_checkpoint
    /\ missions["m1"].phase_checkpoint["outline_generation"] = [k \in {"a"} |-> TextDirty]
    /\ last_write_ok["m1"]
    /\ db["m1"].completed_phases = <<"initial_analysis">>
    /\ db["m1"].phase_checkpoint["outline_generation"] = [k \in {"a"} |-> TextA]

(***************************************************************************)
(* Unknown ids: every handler is called with "m1", a mission that is       *)
(* started and evicted, and with "gone", an id no mission ever had.        *)
(***************************************************************************)
NotFoundIds == {"m1", "gone"}

NotFoundUsage == [call_id |-> "c1", cost |-> 1, agent_mode |-> "writing"]

NotFoundStartStep == StartMission("m1", TRUE)

NotFoundStatus(m) == UpdateMissionStatus(m, "paused", None, TRUE)

NotFoundPhase(m) ==
    \/ MarkPhaseCompleted(m, "initial_analysis", TRUE)
    \/ SavePhaseCheckpoint(m, "outline_generation", [k \in {"a"} |-> TextA], TRUE)

NotFoundContent(m) == StorePlan(m, "plan1", TRUE)

NotFoundStats(m) ==
    \E force \in BOOLEAN : UpdateMissionStats(m, NotFoundUsage, FALSE, FALSE, force)

NotFoundGovernor(m) == GetMissionSemaphore("w1", m, Some(1), 4)

NotFoundEvict(m) == RemoveMissionFromMemory(m)

\* some handler is called with mission id m
NotFoundCall(m) ==
    \/ NotFoundStatus(m)
    \/ NotFoundPhase(m)
    \/ NotFoundContent(m)
    \/ NotFoundStats(m)
    \/ NotFoundGovernor(m)
    \/ NotFoundEvict(m)

NotFoundStatusStep == \E m \in NotFoundIds : NotFoundStatus(m)

NotFoundPhaseStep == \E m \in NotFoundIds : NotFoundPhase(m)

NotFoundContentStep == \E m \in NotFoundIds : NotFoundContent(m)

NotFoundStatsStep == \E m \in NotFoundIds : NotFoundStats(m)

NotFoundGovernorStep == \E m \in NotFoundIds : NotFoundGovernor(m)

NotFoundEvictStep == \E m \in NotFoundIds : NotFoundEvict(m)

NextNotFound ==
    \/ NotFoundStartStep
    \/ NotFoundStatusStep
    \/ NotFoundPhaseStep
    \/ NotFoundContentStep
    \/ NotFoundStatsStep
    \/ NotFoundGovernorStep
    \/ NotFoundEvictStep

SpecNotFound == Init /\ [][NextNotFound]_vars

\* C22: NotFound is a pure no-op.  A handler called with a mission id that is
\* not in memory does not raise, answers null, false or zero, and leaves the
\* mission map, the stats totals, the set of seen call ids, the governor's
\* pools and the processed-source sets unchanged.
C22_NotFoundNoOp ==
    [][ \A m \in NotFoundIds :
          (m \notin DOMAIN missions /\ NotFoundCall(m)) =>
              /\ ~raised'
              /\ GetMissionContext(missions, m) = Nothing
              /\ GetNextPhase(m) = None
              /\ last_op' = "remove_mission_from_memory" => last_call'.result = FALSE
              /\ UNCHANGED <<missions, mission_stats, tracked_calls, mission_semaphores,
                             semaphores, processed>> ]_vars

(***************************************************************************)
(* Store failures: mission "m1" is created and driven through its          *)
(* mutating handlers while every store write may fail.                     *)
(***************************************************************************)
FailStatusArgs == {<<"paused", None>>, <<"running", None>>, <<"failed", "boom">>}

FailPayloads == {[k \in {"a"} |-> TextA], [k \in {"b"} |-> TextDirty]}

FailStartStep == \E ok \in BOOLEAN : StartMission("m1", ok)

FailStatusStep ==
    \E a \in FailStatusArgs, ok \in BOOLEAN : UpdateMissionStatus("m1", a[1], a[2], ok)

FailMarkStep ==
    \E p \in RestartMarkArgs, ok \in BOOLEAN : MarkPhaseCompleted("m1", p, ok)

FailSaveStep ==
    \E d \in FailPayloads, ok \in BOOLEAN :
        SavePhaseCheckpoint("m1", "outline_generation", d, ok)

FailPlanStep == \E ok \in BOOLEAN : StorePlan("m1", "plan1", ok)

NextFail ==
    \/ FailStartStep
    \/ FailStatusStep
    \/ FailMarkStep
    \/ FailSaveStep
    \/ FailPlanStep

SpecFail == Init /\ [][NextFail]_vars

\* C23: persistence failures are absorbed.  When the store write of a
\* mutating handler fails, start_mission included, no error reaches the
\* caller, the mutation the handler made in memory is kept (the new mission is
\* in memory; the status, completed phase, checkpoint or plan is the one the
\* handler set), and the status is the one the handler left.
C23_FailuresAbsorbed ==
    [][ /\ ~raised'
        /\ StartMission("m1", FALSE) =>
               /\ "m1" \in DOMAIN missions'
               /\ missions'["m1"] = NewMission
        /\ "m1" \in DOMAIN missions =>
               /\ \A a \in FailStatusArgs :
                      UpdateMissionStatus("m1", a[1], a[2], FALSE) =>
                          /\ missions'["m1"].status = a[1]
                          /\ missions'["m1"].error_info = a[2]
               /\ \A p \in RestartMarkArgs :
                      MarkPhaseCompleted("m1", p, FALSE) =>
                          /\ InList(p, missions'["m1"].completed_phases)
                          /\ missions'["m1"].status = missions["m1"].status
               /\ \A d \in FailPayloads :
                      SavePhaseCheckpoint("m1", "outline_generation", d, FALSE) =>
                          /\ \A k \in DOMAIN d :
                                 missions'["m1"].phase_checkpoint["outline_generation"][k] = d[k]
                          /\ missions'["m1"].status = missions["m1"].status
               /\ StorePlan("m1", "plan1", FALSE) =>
                          /\ missions'["m1"].plan = "plan1"
                          /\ missions'["m1"].status = "running" ]_vars

(***************************************************************************)
(* The store write of a handler, step by step.  A handler mutates the      *)
(* mission, builds the sanitized snapshot and awaits                       *)
(* crud.update_mission_context on a session of its own; the handlers above *)
(* take the write as applied at once, the actions below leave it pending   *)
(* until the store applies it, so that handlers of concurrently running    *)
(* tasks interleave between a handler's mutation and its write.            *)
(***************************************************************************)
\* the call "crud.update_mission_context(db, mission_id, sanitized_context)"
WriteOf(m, mission) == [mission_id |-> m, mission_context |-> Snapshot(mission)]

\* mark_phase_completed up to its await of the store
MarkPhaseCompletedAwaiting(m, phase) ==
    /\ last_op' = "mark_phase_completed"
    /\ raised' = FALSE
    /\ Cardinality(pending_writes) < MaxPending
    /\ IF m \in DOMAIN missions /\ MarkAppends(missions[m], phase)
       THEN /\ missions' = [missions EXCEPT ![m].completed_phases = Append(@, phase)]
            /\ pending_writes' = pending_writes \cup {WriteOf(m, missions'[m])}
       ELSE UNCHANGED <<missions, pending_writes>>
    /\ UNCHANGED <<db, last_write_ok, mission_semaphores, boot, processed, documents,
                   document_groups, prepares>>
    /\ UNCHANGED statsVars
    /\ UNCHANGED govVars

\* save_phase_checkpoint up to its await of the store
SavePhaseCheckpointAwaiting(m, phase, checkpoint_data) ==
    /\ last_op' = "save_phase_checkpoint"
    /\ raised' = FALSE
    /\ Cardinality(pending_writes) < MaxPending
    /\ IF m \in DOMAIN missions
       THEN /\ missions' = [missions EXCEPT ![m].phase_checkpoint =
                                               CheckpointSaved(@, phase, checkpoint_data)]
            /\ pending_writes' = pending_writes \cup {WriteOf(m, missions'[m])}
       ELSE UNCHANGED <<missions, pending_writes>>
    /\ UNCHANGED <<db, last_write_ok, mission_semaphores, boot, processed, documents,
                   document_groups, prepares>>
    /\ UNCHANGED statsVars
    /\ UNCHANGED govVars

\* crud.update_mission_context takes effect and the awaiting handler returns;
\* every handler writes on a session of its own, so any pending write may be
\* the next to take effect
UpdateMissionContext(write, ok) ==
    /\ last_op' = "crud.update_mission_context"
    /\ raised' = FALSE
    /\ write \in pending_writes
    /\ pending_writes' = pending_writes \ {write}
    /\ db' = IF ok THEN DictSet(db, write.mission_id, write.mission_context) ELSE db
    /\ last_write_ok' = NoteWrite(write.mission_id, ok)
    /\ UNCHANGED <<missions, mission_semaphores, boot, processed, documents,
                   document_groups, prepares>>
    /\ UNCHANGED statsVars
    /\ UNCHANGED govVars

(***************************************************************************)
(* Concurrent writers: tasks driving mission "m1" complete phases and save *)
(* checkpoints while the store applies their writes, all successfully, in  *)
(* any order.                                                              *)
(***************************************************************************)
WritesStartStep == StartMission("m1", TRUE)

WritesMarkStep == \E p \in RestartMarkArgs : MarkPhaseCompletedAwaiting("m1", p)

WritesSaveStep ==
    \E d \in FailPayloads : SavePhaseCheckpointAwaiting("m1", "outline_generation", d)

WritesApplyStep == \E write \in pending_writes : UpdateMissionContext(write, TRUE)

NextWrites ==
    \/ WritesStartStep
    \/ WritesMarkStep
    \/ WritesSaveStep
    \/ WritesApplyStep

SpecWrites == Init /\ [][NextWrites]_vars

\* C24: eventual consistency with the store.  Once every write issued for a
\* mission by concurrently running tasks has been applied without failure, in
\* whatever order, the persisted snapshot of the mission is the snapshot of
\* its in-memory state: no stale snapshot stays as the final stored state.
C24_EventuallyConsistent ==
    \A m \in DOMAIN missions :
        (\A write \in pending_writes : write.mission_id # m)
            => db[m] = Snapshot(missions[m])

(***************************************************************************)
(* update_mission_metadata                                                 *)
(***************************************************************************)
UpdateMissionMetadata(m, metadata_update, ok) ==
    /\ last_op' = "update_mission_metadata"
    /\ raised' = FALSE
    /\ IF m \in DOMAIN missions
       THEN /\ missions' = [missions EXCEPT ![m].metadata = DictUpdate(@, metadata_update)]
            /\ db' = Persist(m, missions'[m], ok)
            /\ last_write_ok' = NoteWrite(m, ok)
       ELSE UNCHANGED <<missions, db, last_write_ok>>
    /\ UNCHANGED <<mission_semaphores, boot>>
    /\ UNCHANGED docVars
    /\ UNCHANGED statsVars
    /\ UNCHANGED govVars

(***************************************************************************)
(* The document store, as far as prepare_mission_start and                 *)
(* _process_note_for_document_group use it.  All missions belong to the    *)
(* chat of one user.  A document group holds the list of its documents.    *)
(***************************************************************************)
\* crud.create_document_group as called by prepare_mission_start
CreateDocumentGroup(group_id) ==
    /\ last_op' = "crud.create_document_group"
    /\ raised' = FALSE
    /\ group_id \notin DOMAIN document_groups
    /\ document_groups' = DictSet(document_groups, group_id, <<>>)
    /\ UNCHANGED <<missions, db, last_write_ok, mission_semaphores, boot,
                   pending_writes, processed, documents, prepares>>
    /\ UNCHANGED statsVars
    /\ UNCHANGED govVars

\* the part of the store a note's processing reads and writes
DocStore == [documents |-> documents, document_groups |-> document_groups]

\* crud.get_document: the record with this id, if there is one
DocumentExists(store, doc_id) == doc_id \in DOMAIN store.documents

\* crud.get_document_group
GroupExists(store, group_id) == group_id \in DOMAIN store.document_groups

\* "existing_doc not in document_group.documents"
InGroup(store, group_id, doc_id) == InList(doc_id, store.document_groups[group_id])

AttachedNowhere(store, group_id, doc_id) == store

\* "document_group.documents.append(...)" when the group exists
Attached(store, group_id, doc_id) ==
    IF GroupExists(store, group_id)
    THEN [store EXCEPT !.document_groups[group_id] = Append(@, doc_id)]
    ELSE store

(***************************************************************************)
(* _process_note_for_document_group.  A note is a record with note_id,     *)
(* source_type, source_id, is_relevant and source_metadata (a dict, empty  *)
(* when the note has none).  fails tells whether the store raises while    *)
(* the note is externalized; the work done until then is rolled back.      *)
(***************************************************************************)
DocIdPerMission(m, note) == <<"uuid5", m, note.source_id>>

\* doc_id = str(uuid.uuid5(url_namespace, source_id)): a name-based identifier,
\* a function of the source id alone, different for different source ids
DocIdOf(m, note) == <<"uuid5", "6ba7b811-9dad-11d1-80b4-00c04fd430c8", note.source_id>>

\* source_key = f"{source_type}:{source_id}"
SourceKey(note) == <<note.source_type, note.source_id>>

ProcessedKeys(all_processed, m) == DictGet(all_processed, m, {})

\* lines 1704-1718: the mission is in memory, has opted in and has a group id
OptedIn(all_missions, m) ==
    /\ m \in DOMAIN all_missions
    /\ Truthy(all_missions[m].metadata)
    /\ DictGet(DictGet(all_missions[m].metadata, "research_params", EmptyDict),
               "auto_create_document_group", FALSE)
    /\ "generated_document_group_id" \in DOMAIN all_missions[m].metadata

\* lines 1720-1728: the note is relevant and names its source
Eligible(note) == note.is_relevant /\ note.source_type # None /\ note.source_id # None

AlreadyProcessedNever(all_processed, m, note) == FALSE

\* line 1738
AlreadyProcessed(all_processed, m, note) == SourceKey(note) \in ProcessedKeys(all_processed, m)

FullContentAssumed(note) == TRUE

\* lines 1755-1767: the fetched_full_content flag of the note's metadata
FullContent(note) ==
    Truthy(note.source_metadata) /\ DictGet(note.source_metadata, "fetched_full_content", FALSE)

\* the Document built at lines 1838-1857
WebDocument(m, note, doc_id) ==
    [ id |-> doc_id, url |-> note.source_id, source |-> "mission_web_search",
      first_captured_by_mission |-> m, processing_status |-> "pending" ]

\* lines 1769-1882: the web branch once the full content is there
WebDocumentSaved(store, m, group_id, note) ==
    LET doc_id == DocIdOf(m, note)
    IN  IF ~DocumentExists(store, doc_id)
        THEN Attached([store EXCEPT !.documents =
                                        DictSet(@, doc_id, WebDocument(m, note, doc_id))],
                      group_id, doc_id)
        ELSE IF GroupExists(store, group_id) /\ ~InGroup(store, group_id, doc_id)
             THEN Attached(store, group_id, doc_id)
        ELSE store

\* lines 1890-1940: a note on a stored document (the notes of this model name
\* the document in their metadata, none leaves it to be cut out of a chunk id)
StoredDocumentAttached(store, group_id, note) ==
    LET doc_id == DictGet(note.source_metadata, "doc_id", None)
    IN  IF /\ doc_id # None
           /\ DocumentExists(store, doc_id)
           /\ GroupExists(store, group_id)
           /\ ~InGroup(store, group_id, doc_id)
        THEN Attached(store, group_id, doc_id)
        ELSE store

\* the store after the note has been processed
Externalized(store, all_missions, m, note, fails) ==
    LET group_id == all_missions[m].metadata["generated_document_group_id"]
    IN  IF fails THEN store
        ELSE IF note.source_type = "web"
             THEN IF FullContent(note) THEN WebDocumentSaved(store, m, group_id, note)
                  ELSE store
        ELSE IF note.source_type = "document"
             THEN StoredDocumentAttached(store, group_id, note)
        ELSE store

\* the processing goes past the policy checks and the dedup check
Attempts(all_processed, all_missions, m, note) ==
    /\ OptedIn(all_missions, m)
    /\ Eligible(note)
    /\ ~AlreadyProcessed(all_processed, m, note)

\* the processed-source sets and the store, before and after a call
ProcessorState == [processed |-> processed, store |-> DocStore]

\* _process_note_for_document_group(mission_id, note)
NoteProcessed(state, all_missions, m, note, fails) ==
    IF Attempts(state.processed, all_missions, m, note)
    THEN [ processed |-> DictSet(state.processed, m,
                                 ProcessedKeys(state.processed, m) \cup {SourceKey(note)}),
           store |-> Externalized(state.store, all_missions, m, note, fails) ]
    ELSE state

\* "for note in notes: await self._process_note_for_document_group(...)"
RECURSIVE NotesProcessed(_, _, _, _, _)

NotesProcessedFirstOnly(state, all_missions, m, notes, fails) ==
    IF notes = <<>> THEN state
    ELSE NoteProcessed(state, all_missions, m, Head(notes), Head(fails))

NotesProcessed(state, all_missions, m, notes, fails) ==
    IF notes = <<>> THEN state
    ELSE NotesProcessed(NoteProcessed(state, all_missions, m, Head(notes), Head(fails)),
                        all_missions, m, Tail(notes), Tail(fails))

(***************************************************************************)
(* add_note and add_notes: fails[i] tells whether the store raises while   *)
(* the i-th note is externalized.                                          *)
(***************************************************************************)
AddNote(m, note, fails, ok) ==
    /\ last_op' = "add_note"
    /\ raised' = FALSE
    /\ last_call' = [mission_id |-> m, notes |-> <<note>>, fails |-> <<fails>>]
    /\ IF m \in DOMAIN missions
       THEN /\ Len(missions[m].notes) < MaxNotes
            /\ missions' = [missions EXCEPT ![m].notes = Append(@, note)]
            /\ LET after == NoteProcessed(ProcessorState, missions', m, note, fails)
               IN  /\ processed' = after.processed
                   /\ documents' = after.store.documents
                   /\ document_groups' = after.store.document_groups
            /\ db' = Persist(m, missions'[m], ok)
            /\ last_write_ok' = NoteWrite(m, ok)
       ELSE UNCHANGED <<missions, processed, documents, document_groups, db, last_write_ok>>
    /\ UNCHANGED <<mission_stats, tracked_calls, stats_tasks, save_tasks, presented,
                   expected, ncalls, mission_semaphores, boot, pending_writes, prepares>>
    /\ UNCHANGED govVars

AddNotes(m, notes, fails, ok) ==
    /\ last_op' = "add_notes"
    /\ raised' = FALSE
    /\ last_call' = [mission_id |-> m, notes |-> notes, fails |-> fails]
    /\ IF m \in DOMAIN missions
       THEN /\ Len(missions[m].notes) + Len(notes) <= MaxNotes
            /\ missions' = [missions EXCEPT ![m].notes = @ \o notes]
            /\ LET after == NotesProcessed(ProcessorState, missions', m, notes, fails)
               IN  /\ processed' = after.processed
                   /\ documents' = after.store.documents
                   /\ document_groups' = after.store.document_groups
            /\ db' = Persist(m, missions'[m], ok)
            /\ last_write_ok' = NoteWrite(m, ok)
       ELSE UNCHANGED <<missions, processed, documents, document_groups, db, last_write_ok>>
    /\ UNCHANGED <<mission_stats, tracked_calls, stats_tasks, save_tasks, presented,
                   expected, ncalls, mission_semaphores, boot, pending_writes, prepares>>
    /\ UNCHANGED govVars

(***************************************************************************)
(* The dedup side-effect processor: mission "m1" is started, gets a        *)
(* document group and opts into automatic collection, and notes are added  *)
(* to it one by one and in batches of two while the store may raise during *)
(* an externalization.                                                     *)
(***************************************************************************)
DocMissionIds == {"m1", "m2"}

GroupOf == [m1 |-> "g1", m2 |-> "g2"]

\* the metadata prepare_mission_start writes for a mission that opts in
OptInMetadata(group_id) ==
    [ research_params |-> [auto_create_document_group |-> TRUE],
      generated_document_group_id |-> group_id ]

WebNote(note_id, source_id, is_relevant, fetched_full_content) ==
    [ note_id |-> note_id, source_type |-> "web", source_id |-> source_id,
      is_relevant |-> is_relevant,
      source_metadata |-> [k \in {"fetched_full_content"} |-> fetched_full_content] ]

\* a note on a chunk of the stored document that came from source_id
DocumentNote(note_id, chunk_id, source_id) ==
    [ note_id |-> note_id, source_type |-> "document", source_id |-> chunk_id,
      is_relevant |-> TRUE,
      source_metadata |->
          [k \in {"doc_id"} |-> DocIdOf("m1", WebNote(note_id, source_id, TRUE, TRUE))] ]

FullNotes ==
    { WebNote("n1", "u1", TRUE, TRUE), WebNote("n2", "u1", FALSE, TRUE),
      WebNote("n3", "u2", TRUE, TRUE) }

DocNotes ==
    FullNotes \cup { WebNote("n4", "u1", TRUE, FALSE), DocumentNote("n5", "c1", "u2") }

\* the batches add_notes is called with
Batches(notes) == {<<a, b>> : a \in notes, b \in notes}

OptIn(m) ==
    /\ GroupOf[m] \in DOMAIN document_groups
    /\ UpdateMissionMetadata(m, OptInMetadata(GroupOf[m]), TRUE)

DocStartStep == StartMission("m1", TRUE)

DocGroupStep == CreateDocumentGroup(GroupOf["m1"])

DocOptInStep == OptIn("m1")

DocAddNoteStep ==
    \E note \in DocNotes, fails \in BOOLEAN : AddNote("m1", note, fails, TRUE)

DocAddNotesStep ==
    \E notes \in Batches(DocNotes), fails \in [1..2 -> BOOLEAN] :
        AddNotes("m1", notes, fails, TRUE)

NextDocs ==
    \/ DocStartStep
    \/ DocGroupStep
    \/ DocOptInStep
    \/ DocAddNoteStep
    \/ DocAddNotesStep

SpecDocs == Init /\ [][NextDocs]_vars

(***************************************************************************)
(* Two missions, artifacts that carry their full content and a store that  *)
(* does not raise.                                                         *)
(***************************************************************************)
OkStartStep == \E m \in DocMissionIds : StartMission(m, TRUE)

OkGroupStep == \E m \in DocMissionIds : CreateDocumentGroup(GroupOf[m])

OkOptInStep == \E m \in DocMissionIds : OptIn(m)

OkAddNoteStep ==
    \E m \in DocMissionIds, note \in FullNotes : AddNote(m, note, FALSE, TRUE)

OkAddNotesStep ==
    \E m \in DocMissionIds, notes \in Batches(FullNotes) :
        AddNotes(m, notes, <<FALSE, FALSE>>, TRUE)

NextDocsOk ==
    \/ OkStartStep
    \/ OkGroupStep
    \/ OkOptInStep
    \/ OkAddNoteStep
    \/ OkAddNotesStep

SpecDocsOk == Init /\ [][NextDocsOk]_vars

(***************************************************************************)
(* Claims about the dedup side-effect processor.                           *)
(***************************************************************************)
WebSources == {"u1", "u2"}

\* the durable records of a web source
RecordsOf(source_id) == {d \in DOMAIN documents : documents[d].url = source_id}

\* the places of a group's list that hold a record of the source
AttachmentsOf(group_id, source_id) ==
    {i \in 1..Len(document_groups[group_id]) :
        document_groups[group_id][i] \in RecordsOf(source_id)}

\* the relevant full-content web notes of the source among a mission's notes
TimesGiven(mission, source_id) ==
    {i \in 1..Len(mission.notes) :
        /\ mission.notes[i].source_type = "web"
        /\ mission.notes[i].source_id = source_id
        /\ mission.notes[i].is_relevant
        /\ FullContent(mission.notes[i])}

CollectionOf(mission) == mission.metadata["generated_document_group_id"]

RECURSIVE Kept(_, _, _)
Kept(seq, drop, i) ==
    IF i > Len(seq) THEN <<>>
    ELSE (IF i \in drop THEN <<>> ELSE <<seq[i]>>) \o Kept(seq, drop, i + 1)

\* the places of a call's notes that replay a source key: the key was attempted
\* in the mission before the call, or by an earlier note of the call that
\* passed the opt-in and relevance checks
Replays(m, notes) ==
    {i \in 1..Len(notes) :
        \/ SourceKey(notes[i]) \in ProcessedKeys(processed, m)
        \/ \E j \in 1..(i - 1) :
               /\ SourceKey(notes[j]) = SourceKey(notes[i])
               /\ OptedIn(missions, m)
               /\ Eligible(notes[j])}

\* the step is a call of add_note or add_notes for a mission in memory
AddsNotes ==
    /\ last_op' \in {"add_note", "add_notes"}
    /\ last_call'.mission_id \in DOMAIN missions

\* C27: replay is a no-op after the first attempt.  Once a source key has been
\* attempted in a mission (past the opt-in and relevance checks), a later
\* artifact with that key changes neither the durable records nor the
\* mission's collection: the store after a call is the store the call would
\* leave without its replaying artifacts, also when the first attempt failed
\* or lacked the full content and the replay carries it.
C27_ReplayIsNoOp ==
    [][ AddsNotes =>
          LET m == last_call'.mission_id
              notes == last_call'.notes
              fails == last_call'.fails
              drop == Replays(m, notes)
              without == NotesProcessed(ProcessorState, missions, m,
                                        Kept(notes, drop, 1), Kept(fails, drop, 1))
          IN  /\ documents' = without.store.documents
              /\ document_groups' = without.store.document_groups
              /\ (drop = 1..Len(notes)) => UNCHANGED <<documents, document_groups, processed>>
        ]_vars

\* after a first attempt on source u1 that left no record, a relevant
\* full-content note of u1 has just been added with the store working
C27_Witness ==
    /\ last_op = "add_note"
    /\ last_call.mission_id = "m1"
    /\ last_call.notes = <<WebNote("n1", "u1", TRUE, TRUE)>>
    /\ last_call.fails = <<FALSE>>
    /\ "m1" \in DOMAIN missions
    /\ OptedIn(missions, "m1")
    /\ Len(missions["m1"].notes) = 2
    /\ missions["m1"].notes[1] = WebNote("n4", "u1", TRUE, FALSE)
    /\ <<"web", "u1">> \in ProcessedKeys(processed, "m1")
    /\ RecordsOf("u1") = {}
    /\ document_groups["g1"] = <<>>

\* the notes of a call that may be externalized as a new durable record
Recordable(m, notes) ==
    {i \in 1..Len(notes) :
        /\ OptedIn(missions, m)
        /\ notes[i].is_relevant
        /\ notes[i].source_type = "web"
        /\ "fetched_full_content" \in DOMAIN notes[i].source_metadata
        /\ notes[i].source_metadata["fetched_full_content"]}

\* the notes of a call that may attach a record to the mission's collection:
\* the recordable ones and the relevant notes on stored documents
Attachable(m, notes) ==
    Recordable(m, notes) \cup
        {i \in 1..Len(notes) :
            /\ OptedIn(missions, m)
            /\ notes[i].is_relevant
            /\ notes[i].source_type = "document"}

\* the document a note stands for
DocumentOf(m, note) ==
    IF note.source_type = "web" THEN DocIdOf(m, note) ELSE note.source_metadata["doc_id"]

\* C28: externalization policy gate.  A call creates no durable record and no
\* attachment for a mission that has not opted in, for an artifact marked not
\* relevant, or for a web artifact without the full original content: every
\* record created is the record of a relevant full-content web artifact given
\* to an opted-in mission, and every attachment made is of such an artifact
\* or of a relevant stored document.
C28_PolicyGate ==
    [][ AddsNotes =>
          LET m == last_call'.mission_id
              notes == last_call'.notes
          IN  /\ \A d \in DOMAIN documents' \ DOMAIN documents :
                     \E i \in Recordable(m, notes) :
                         /\ d = DocIdOf(m, notes[i])
                         /\ documents'[d].url = notes[i].source_id
              /\ \A d \in DOMAIN documents : documents'[d] = documents[d]
              /\ \A g \in DOMAIN document_groups :
                     /\ IsPrefix(document_groups[g], document_groups'[g])
                     /\ \A k \in (Len(document_groups[g]) + 1)..Len(document_groups'[g]) :
                            /\ OptedIn(missions, m)
                            /\ g = CollectionOf(missions[m])
                            /\ \E i \in Attachable(m, notes) :
                                   document_groups'[g][k] = DocumentOf(m, notes[i])
        ]_vars

\* an opted-in mission was given, in one batch, a full-content web note marked
\* not relevant and a relevant full-content one; only the second made a
\* record, an attachment and a processed key
C28_Witness ==
    /\ last_op = "add_notes"
    /\ last_call.mission_id = "m1"
    /\ last_call.notes = <<WebNote("n2", "u1", FALSE, TRUE), WebNote("n3", "u2", TRUE, TRUE)>>
    /\ last_call.fails = <<FALSE, FALSE>>
    /\ "m1" \in DOMAIN missions
    /\ OptedIn(missions, "m1")
    /\ DOMAIN documents = {DocIdOf("m1", WebNote("n3", "u2", TRUE, TRUE))}
    /\ document_groups["g1"] = <<DocIdOf("m1", WebNote("n3", "u2", TRUE, TRUE))>>
    /\ ProcessedKeys(processed, "m1") = {<<"web", "u2">>}

\* the notes of a batch whose externalization raises: the store raises at
\* their turn and, the notes before them processed, they get past the policy
\* checks and the dedup check
Failing(m, notes, fails) ==
    {i \in 1..Len(notes) :
        /\ fails[i]
        /\ Attempts(NotesProcessed(ProcessorState, missions, m,
                                   SubSeq(notes, 1, i - 1), SubSeq(fails, 1, i - 1)).processed,
                    missions, m, notes[i])}

\* the notes that come after a failing note of their own source
AfterFailing(m, notes, fails) ==
    {j \in 1..Len(notes) :
        \E i \in Failing(m, notes, fails) :
            i < j /\ SourceKey(notes[j]) = SourceKey(notes[i])}

\* a batch is added to a mission in memory
AddsBatch ==
    /\ last_op' = "add_notes"
    /\ last_call'.mission_id \in DOMAIN missions

\* C29 as stated: whenever an externalization of a batch fails, the records
\* and the collections after the call are those of the same call on the batch
\* without the failing notes, all notes of the batch are added to the mission
\* and the call does not raise.
C29_AsIfFailingAbsent ==
    [][ AddsBatch =>
          LET m == last_call'.mission_id
              notes == last_call'.notes
              fails == last_call'.fails
              drop == Failing(m, notes, fails)
              without == NotesProcessed(ProcessorState, missions, m,
                                        Kept(notes, drop, 1), Kept(fails, drop, 1))
          IN  /\ documents' = without.store.documents
              /\ document_groups' = without.store.document_groups
              /\ missions'[m].notes = missions[m].notes \o notes
              /\ ~raised'
        ]_vars

\* C29: batch failure isolation.  Whenever an externalization of a batch
\* fails, the failure is caught: the records and the collections after the
\* call are those of the same call on the batch without the failing notes and
\* without the later notes of a failing note's source (these are skipped as
\* replays), the sources marked as processed are those of that call and the
\* failing notes' sources, all notes of the batch are added to the mission in
\* their order, and the call does not raise.
C29_BatchFailureIsolated ==
    [][ AddsBatch =>
          LET m == last_call'.mission_id
              notes == last_call'.notes
              fails == last_call'.fails
              failing == Failing(m, notes, fails)
              drop == failing \cup AfterFailing(m, notes, fails)
              without == NotesProcessed(ProcessorState, missions, m,
                                        Kept(notes, drop, 1), Kept(fails, drop, 1))
          IN  /\ documents' = without.store.documents
              /\ document_groups' = without.store.document_groups
              /\ ProcessedKeys(processed', m) =
                     ProcessedKeys(without.processed, m)
                         \cup {SourceKey(notes[i]) : i \in failing}
              /\ missions'[m].notes = missions[m].notes \o notes
              /\ ~raised'
        ]_vars

\* the externalization of the first note of a batch failed and the second
\* note, of another source, got its record and its attachment
C29_Witness ==
    /\ last_op = "add_notes"
    /\ last_call.mission_id = "m1"
    /\ last_call.notes = <<WebNote("n1", "u1", TRUE, TRUE), WebNote("n3", "u2", TRUE, TRUE)>>
    /\ last_call.fails = <<TRUE, FALSE>>
    /\ "m1" \in DOMAIN missions
    /\ missions["m1"].notes = last_call.notes
    /\ ~raised
    /\ ProcessedKeys(processed, "m1") = {<<"web", "u1">>, <<"web", "u2">>}
    /\ RecordsOf("u1") = {}
    /\ RecordsOf("u2") = {DocIdOf("m1", WebNote("n3", "u2", TRUE, TRUE))}
    /\ "g1" \in DOMAIN document_groups
    /\ document_groups["g1"] = <<DocIdOf("m1", WebNote("n3", "u2", TRUE, TRUE))>>

(***************************************************************************)
(* The life of a mission's running totals: mission "m1" is started, usage  *)
(* is reported for it while it is in memory and not in a terminal status,  *)
(* its status changes, and it is evicted.                                  *)
(***************************************************************************)
RetireStatuses == {"running", "paused"} \cup TerminalStatuses

RetireUsages ==
    { DictUpdate(u, [k \in {"call_id"} |-> c]) :
        u \in {u \in StatsUsages : "cost" \in DOMAIN u}, c \in {"c1", "c2"} }

\* the mission is in memory and its status is not terminal
Active(all_missions, m) ==
    m \in DOMAIN all_missions /\ all_missions[m].status \notin TerminalStatuses

RetireStartStep == StartMission("m1", TRUE)

RetireUsageStep ==
    /\ Active(missions, "m1")
    /\ \E d \in RetireUsages : UpdateMissionStats("m1", d, FALSE, FALSE, FALSE)

RetireStatusStep ==
    \E status \in RetireStatuses : UpdateMissionStatus("m1", status, None, TRUE)

RetireEvictStep == RemoveMissionFromMemory("m1")

NextRetire ==
    \/ RetireStartStep
    \/ RetireUsageStep
    \/ RetireStatusStep
    \/ RetireEvictStep

SpecRetire == Init /\ [][NextRetire]_vars

StatsFields == DOMAIN ZeroStats

\* C30: stats live exactly as long as their mission.  After every step, a
\* mission that is not in memory or is in a terminal status has all-zero
\* totals in get_mission_stats, and across a step that leaves the mission
\* active no total of it goes down.
C30_StatsLiveWithMission ==
    [][ /\ ~Active(missions', "m1") => GetMissionStats("m1")' = ZeroStats
        /\ Active(missions, "m1") /\ Active(missions', "m1") =>
               \A f \in StatsFields : GetMissionStats("m1")'[f] >= GetMissionStats("m1")[f]
      ]_vars

(***************************************************************************)
(* log_execution_step called directly: the entry is appended, the mission  *)
(* is written to the store and the log update is sent; last_call records   *)
(* what the call did (the row of the execution-log table and the detailed  *)
(* fields of the entry are not modelled).                                  *)
(***************************************************************************)
LogKeptToLast(mission, log_entry) == [mission EXCEPT !.execution_log = <<log_entry>>]

\* lines 1134-1135
LogAppended(mission, log_entry) == [mission EXCEPT !.execution_log = Append(@, log_entry)]

LogExecutionStep(m, agent_name, action, ok) ==
    /\ last_op' = "log_execution_step"
    /\ raised' = FALSE
    /\ UNCHANGED docVars
    /\ IF m \in DOMAIN missions /\ ~LogSkipped(missions[m], action)
       THEN /\ Len(missions[m].execution_log) < MaxLog
            /\ missions' = [missions EXCEPT ![m] =
                                LogAppended(@, LogEntry(agent_name, action, None, None,
                                                        "success"))]
            /\ db' = Persist(m, missions'[m], ok)
            /\ last_write_ok' = NoteWrite(m, ok)
            /\ last_call' = [mission_id |-> m, action |-> action, notified |-> TRUE]
       ELSE /\ UNCHANGED <<missions, db, last_write_ok>>
            /\ last_call' = [mission_id |-> m, action |-> action, notified |-> FALSE]
    /\ UNCHANGED <<mission_stats, tracked_calls, stats_tasks, save_tasks, presented,
                   expected, ncalls, mission_semaphores, boot>>
    /\ UNCHANGED govVars

(***************************************************************************)
(* The execution log: mission "m1" is started, changes status, completes a *)
(* phase, is logged to by callers and by the stats aggregator, and is      *)
(* evicted.                                                                *)
(***************************************************************************)
LogMissionIds == {"m1", "gone"}

LogStatuses == {"running", "paused", "stopped", "completed"}

LogActions == {"Pause Mission", "Stop Mission", "Resume Mission", "Run Phase"}

LogUsage == [cost |-> 1, prompt_tokens |-> 20, agent_mode |-> "router"]

LogStartStep == StartMission("m1", TRUE)

LogStatusStep == \E status \in LogStatuses : UpdateMissionStatus("m1", status, None, TRUE)

LogMarkStep == MarkPhaseCompleted("m1", "initial_analysis", TRUE)

LogStep ==
    \E m \in LogMissionIds, action \in LogActions :
        LogExecutionStep(m, "Controller", action, TRUE)

LogStatsStep ==
    /\ "m1" \in DOMAIN missions
    /\ Len(missions["m1"].execution_log) < MaxLog
    /\ UpdateMissionStats("m1", LogUsage, TRUE, TRUE, TRUE)

LogStatsResumeStep == StatsResume("m1", TRUE)

LogEvictStep == RemoveMissionFromMemory("m1")

NextLog ==
    \/ LogStartStep
    \/ LogStatusStep
    \/ LogMarkStep
    \/ LogStep
    \/ LogStatsStep
    \/ LogStatsResumeStep
    \/ LogEvictStep

SpecLog == Init /\ [][NextLog]_vars

\* C31: the execution log is append-only.  Across every step of every
\* operation on a mission that is in memory before and after it, the log
\* before is a prefix of the log after.
C31_LogAppendOnly ==
    [][ \A m \in DOMAIN missions \cap DOMAIN missions' :
            IsPrefix(missions[m].execution_log, missions'[m].execution_log)
      ]_vars

\* the log holds two entries: one of the stats aggregator, then one appended
\* by a caller while the mission was paused
C31_Witness ==
    /\ last_op = "log_execution_step"
    /\ "m1" \in DOMAIN missions
    /\ missions["m1"].status = "paused"
    /\ Len(missions["m1"].execution_log) = 2
    /\ missions["m1"].execution_log[1] = StatsLogEntry(LogUsage)
    /\ missions["m1"].execution_log[2].action = "Pause Mission"

\* a call of log_execution_step for a mission in memory
LogsStep ==
    /\ last_op' = "log_execution_step"
    /\ last_call'.mission_id \in DOMAIN missions

\* C36: log suppression while halted.  A call of log_execution_step for a
\* paused or stopped mission with an action other than "Pause Mission",
\* "Stop Mission" and "Resume Mission" leaves the log and the store as they
\* are and sends no update; every other call for a mission in memory appends
\* exactly one entry, which carries the action of the call.
C36_SuppressedWhileHalted ==
    [][ LogsStep =>
          LET m == last_call'.mission_id
              action == last_call'.action
              before == missions[m].execution_log
          IN  IF missions[m].status \in {"paused", "stopped"}
                 /\ action \notin {"Pause Mission", "Stop Mission", "Resume Mission"}
              THEN /\ missions' = missions
                   /\ db' = db
                   /\ ~last_call'.notified
              ELSE /\ Len(missions'[m].execution_log) = Len(before) + 1
                   /\ IsPrefix(before, missions'[m].execution_log)
                   /\ missions'[m].execution_log[Len(before) + 1].action = action
        ]_vars

\* a stopped mission was logged to with "Run Phase", which was dropped, after
\* "Stop Mission" had been logged while it was stopped
C36_Witness ==
    /\ last_op = "log_execution_step"
    /\ last_call.mission_id = "m1"
    /\ last_call.action = "Run Phase"
    /\ ~last_call.notified
    /\ "m1" \in DOMAIN missions
    /\ missions["m1"].status = "stopped"
    /\ Len(missions["m1"].execution_log) = 1
    /\ missions["m1"].execution_log[1].action = "Stop Mission"
    /\ "m1" \in DOMAIN db
    /\ db["m1"].status = "stopped"

(***************************************************************************)
(* sanitize_for_jsonb on nested values.  A value is a record: a string     *)
(* holds its characters in chars; a list, a tuple and a dict hold their    *)
(* items in items, a dict also the key of items[i] in keys[i]; a value of  *)
(* any other type (a number, a boolean, None) holds itself in chars.       *)
(***************************************************************************)
JsonStr(chars) == [type |-> "str", chars |-> chars, keys |-> <<>>, items |-> <<>>]

JsonOther(n) == [type |-> "other", chars |-> <<n>>, keys |-> <<>>, items |-> <<>>]

JsonList(items) == [type |-> "list", chars |-> <<>>, keys |-> <<>>, items |-> items]

JsonTuple(items) == [type |-> "tuple", chars |-> <<>>, keys |-> <<>>, items |-> items]

JsonDict(keys, items) == [type |-> "dict", chars |-> <<>>, keys |-> keys, items |-> items]

\* sanitize_for_jsonb(obj)
RECURSIVE SanitizeForJsonb(_)
SanitizeForJsonb(obj) ==
    IF obj.type = "str" THEN [obj EXCEPT !.chars = SanitizeText(@)]
    ELSE IF obj.type \in {"dict", "list", "tuple"}
         THEN [obj EXCEPT !.items = [i \in 1..Len(obj.items) |-> SanitizeForJsonb(obj.items[i])]]
    ELSE obj

\* a call of sanitize_for_jsonb on the value at hand; last_call keeps the
\* argument and the result
SanitizeCall ==
    /\ last_op = "value_built"
    /\ last_op' = "sanitize_for_jsonb"
    /\ last_call' = [obj |-> last_call.obj, result |-> SanitizeForJsonb(last_call.obj)]
    /\ raised' = FALSE
    /\ UNCHANGED <<missions, db, mission_stats, tracked_calls, mission_semaphores,
                   stats_tasks, save_tasks, boot, last_write_ok, presented, expected, ncalls>>
    /\ UNCHANGED govVars
    /\ UNCHANGED docVars

\* NUL, tab, US (0x1F) and "a"
JsonChars == {0, 9, 31, 97}

RECURSIVE TextsUpTo(_)
TextsUpTo(n) ==
    IF n = 0 THEN {<<>>}
    ELSE LET shorter == TextsUpTo(n - 1)
         IN  shorter \cup {Append(t, c) : t \in shorter, c \in JsonChars}

JsonKeys == {<<97>>, <<9>>, <<0, 97>>, <<97, 31>>}

JsonLeaves == {JsonStr(t) : t \in TextsUpTo(MaxLen)} \cup {JsonOther(7)}

RECURSIVE JsonValues(_)
JsonValues(depth) ==
    IF depth = 0 THEN JsonLeaves
    ELSE LET inner == JsonValues(depth - 1)
         IN  JsonLeaves
                 \cup {JsonList(<<>>), JsonDict(<<>>, <<>>)}
                 \cup {JsonList(<<v>>) : v \in inner}
                 \cup {JsonTuple(<<v, JsonStr(<<0>>)>>) : v \in inner}
                 \cup {JsonDict(<<k>>, <<v>>) : k \in JsonKeys, v \in inner}
                 \cup {JsonDict(<<<<97>>, k>>, <<JsonOther(7), v>>) :
                          k \in JsonKeys \ {<<97>>}, v \in inner}

\* a manager as constructed and some value about to be serialized
InitSanitize ==
    /\ missions = EmptyDict
    /\ db = EmptyDict
    /\ mission_stats = EmptyDict
    /\ tracked_calls = {}
    /\ mission_semaphores = EmptyDict
    /\ semaphores = EmptyDict
    /\ workers = [w \in Workers |-> IdleWorker]
    /\ evicted = EmptyDict
    /\ cancel_requests = {}
    /\ stats_tasks = EmptyDict
    /\ save_tasks = {}
    /\ boot = 0
    /\ last_write_ok = EmptyDict
    /\ presented = {}
    /\ expected = EmptyDict
    /\ ncalls = 0
    /\ raised = FALSE
    /\ pending_writes = {}
    /\ processed = EmptyDict
    /\ documents = EmptyDict
    /\ document_groups = EmptyDict
    /\ prepares = EmptyDict
    /\ last_op = "value_built"
    /\ \E obj \in JsonValues(MaxDepth) : last_call = [obj |-> obj]

SanitizeStep == SanitizeCall

NextSanitize == SanitizeStep

SpecSanitize == InitSanitize /\ [][NextSanitize]_vars

\* no string of the value, a key included, holds a character that is to go
RECURSIVE NoControlChars(_)
NoControlChars(obj) ==
    /\ obj.type = "str" => \A i \in 1..Len(obj.chars) : ~IsStrippedChar(obj.chars[i])
    /\ \A i \in 1..Len(obj.keys) :
           \A j \in 1..Len(obj.keys[i]) : ~IsStrippedChar(obj.keys[i][j])
    /\ \A i \in 1..Len(obj.items) : NoControlChars(obj.items[i])

\* the text without the characters in 0x00-0x1F other than tab, newline and
\* carriage return
RECURSIVE Scrubbed(_)
Scrubbed(s) ==
    IF s = <<>> THEN <<>>
    ELSE IF Head(s) \in (0..31) \ {9, 10, 13} THEN Scrubbed(Tail(s))
    ELSE <<Head(s)>> \o Scrubbed(Tail(s))

\* the value with every string and key scrubbed and everything else as it is
RECURSIVE ScrubbedValue(_)
ScrubbedValue(obj) ==
    [ type |-> obj.type,
      chars |-> IF obj.type = "str" THEN Scrubbed(obj.chars) ELSE obj.chars,
      keys |-> [i \in 1..Len(obj.keys) |-> Scrubbed(obj.keys[i])],
      items |-> [i \in 1..Len(obj.items) |-> ScrubbedValue(obj.items[i])] ]

\* C32: serialization scrubbing.  The value returned by sanitize_for_jsonb
\* holds no control character other than tab, newline and carriage return in
\* any string at any depth, mapping keys included, and is the argument with
\* exactly those characters taken out.
C32_ScrubbedAtEveryDepth ==
    last_op = "sanitize_for_jsonb" =>
        /\ NoControlChars(last_call.result)
        /\ last_call.result = ScrubbedValue(last_call.obj)

(***************************************************************************)
(* Stop, eviction and restart: missions are started, change status,        *)
(* complete a phase and are evicted; every store write succeeds; the       *)
(* process restarts when no call is under way.                             *)
(***************************************************************************)
HaltMissionIds == {"m1", "m2"}

HaltStatuses == {"running", "paused", "stopped"}

HaltStartStep == \E m \in HaltMissionIds : StartMission(m, TRUE)

HaltStatusStep ==
    \E m \in HaltMissionIds, status \in HaltStatuses : UpdateMissionStatus(m, status, None, TRUE)

HaltMarkStep == \E m \in HaltMissionIds : MarkPhaseCompleted(m, "initial_analysis", TRUE)

HaltEvictStep == \E m \in HaltMissionIds : RemoveMissionFromMemory(m)

HaltRestartStep == Restart

NextHalt ==
    \/ HaltStartStep
    \/ HaltStatusStep
    \/ HaltMarkStep
    \/ HaltEvictStep
    \/ HaltRestartStep

SpecHalt == Init /\ [][NextHalt]_vars

\* the mission was stopped in this process: it is in memory with status
\* stopped, or it has been evicted
HaltedHere(m) ==
    \/ m \in DOMAIN missions /\ missions[m].status = "stopped"
    \/ m \in DOMAIN evicted /\ m \notin DOMAIN missions

\* C33: stopped and evicted missions are persisted as such.  A restart never
\* loads a mission that update_mission_status stopped or
\* remove_mission_from_memory evicted back into memory with a status that is
\* not terminal.
C33_StoppedSurvivesRestart ==
    [][ last_op' = "async_init" =>
          \A m \in DOMAIN missions' :
              HaltedHere(m) => missions'[m].status \in TerminalStatuses
      ]_vars

(***************************************************************************)
(* Totals across restarts: usage is reported for mission "m1", the         *)
(* detached save_stats_to_db tasks write it to the store, and the process  *)
(* restarts once they have run.                                            *)
(***************************************************************************)
TotalsStartStep == StartMission("m1", TRUE)

TotalsUsageStep ==
    /\ "m1" \in DOMAIN missions
    /\ \E d \in RetireUsages, force \in BOOLEAN :
           UpdateMissionStats("m1", d, FALSE, FALSE, force)

TotalsSaveStep == SaveStatsToDb("m1", TRUE)

\* the process restarts when no save is outstanding
TotalsRestartStep == save_tasks = {} /\ Restart

NextTotals ==
    \/ TotalsStartStep
    \/ TotalsUsageStep
    \/ TotalsSaveStep
    \/ TotalsRestartStep

SpecTotals == Init /\ [][NextTotals]_vars

\* the totals a mission's snapshot fields carry
TotalsOf(mission) ==
    [ total_cost |-> mission.total_cost,
      total_prompt_tokens |-> mission.total_tokens.prompt,
      total_completion_tokens |-> mission.total_tokens.completion,
      total_native_tokens |-> mission.total_tokens.native,
      total_web_search_calls |-> mission.total_web_searches ]

\* a usage is applied to a mission in memory
AppliesUsage(m) ==
    /\ last_op' = "update_mission_stats"
    /\ last_call'.mission_id = m
    /\ last_call'.applied
    /\ ~NothingToCount(last_call'.details)
    /\ m \in DOMAIN missions

\* C34: mission totals survive a restart.  A usage applied to a mission whose
\* snapshot fields carry the totals T leaves them at T plus the increments of
\* the usage, also when T was loaded from the store by a restart, and no
\* step on a mission in memory lowers any of its totals.
C34_TotalsSurviveRestart ==
    [][ \A m \in DOMAIN missions \cap DOMAIN missions' :
          /\ AppliesUsage(m) =>
                 TotalsOf(missions'[m]) =
                     Accumulated(TotalsOf(missions[m]), last_call'.details)
          /\ \A f \in StatsFields : TotalsOf(missions'[m])[f] >= TotalsOf(missions[m])[f]
      ]_vars

\* C35: in every reachable state of the stats aggregator, the usage figures
\* being non-negative, the running native token total of every mission is at
\* least its running prompt total plus its running completion total.
C35_NativeCoversPromptAndCompletion ==
    \A m \in DOMAIN mission_stats :
        mission_stats[m].total_native_tokens >=
            mission_stats[m].total_prompt_tokens + mission_stats[m].total_completion_tokens

\* prompt 10 and completion 5, then a usage with a native figure of 7 alone:
\* the native total 22 exceeds prompt plus completion
C35_Witness ==
    /\ last_op = "update_mission_stats"
    /\ last_call.applied
    /\ last_call.mission_id = "m1"
    /\ Increment(last_call.details, "native_total_tokens") = 7
    /\ "m1" \in DOMAIN mission_stats
    /\ mission_stats["m1"].total_prompt_tokens = 10
    /\ mission_stats["m1"].total_completion_tokens = 5
    /\ mission_stats["m1"].total_native_tokens = 22

(***************************************************************************)
(* One phase driver: mission "m1" is started; phases may have been marked  *)
(* completed before the driver takes over; the driver asks get_next_phase  *)
(* and, unless the answer is "completed", marks the phase it was given;    *)
(* sub-operations save checkpoints in between.                             *)
(***************************************************************************)
\* phases found completed by the driver
SeedPhases == {"initial_research", "writing"}

DriverCheckpointPhases == {"initial_research", "writing", "completed"}

DriverPayloads == {EmptyDict, [k \in {"a"} |-> TextA]}

DriverStartStep == StartMission("m1", TRUE)

DriverSeedStep ==
    /\ "m1" \in DOMAIN missions
    /\ \A i \in 1..Len(missions["m1"].completed_phases) :
           missions["m1"].completed_phases[i] \in SeedPhases
    /\ \E phase \in SeedPhases : MarkPhaseCompleted("m1", phase, TRUE)

DriverMarkStep ==
    /\ GetNextPhase("m1") \notin {None, "completed"}
    /\ MarkPhaseCompleted("m1", GetNextPhase("m1"), TRUE)

DriverSaveStep ==
    \E phase \in DriverCheckpointPhases, d \in DriverPayloads :
        SavePhaseCheckpoint("m1", phase, d, TRUE)

NextDriver ==
    \/ DriverStartStep
    \/ DriverSeedStep
    \/ DriverMarkStep
    \/ DriverSaveStep

SpecDriver == Init /\ [][NextDriver]_vars

\* the eight phases before the terminal marker
WorkPhases == {phase_order[i] : i \in 1..(Len(phase_order) - 1)}

\* the work phases the mission has not completed
Remaining(mission) == {p \in WorkPhases : ~InList(p, mission.completed_phases)}

\* C37: get_next_phase returns "completed" only when every one of the eight
\* phases before it is in completed_phases, whatever phase_checkpoint holds.
C37_CompletedOnlyWhenAllDone ==
    "m1" \in DOMAIN missions =>
        (GetNextPhase("m1") = "completed" => Remaining(missions["m1"]) = {})

\* C38: phase progression terminates.  Every step of the driver marks a
\* work phase that was not yet completed, so the set of work phases left
\* shrinks by one with each of its mark_completed calls, at most eight times;
\* no checkpoint saved in between brings a phase back; and once no work phase
\* is left get_next_phase returns the terminal marker.
C38_DriverTerminates ==
    [][ "m1" \in DOMAIN missions =>
          /\ DriverMarkStep =>
                 /\ GetNextPhase("m1") \in Remaining(missions["m1"])
                 /\ Remaining(missions'["m1"]) =
                        Remaining(missions["m1"]) \ {GetNextPhase("m1")}
          /\ Remaining(missions'["m1"]) \subseteq Remaining(missions["m1"])
          /\ Cardinality(Remaining(missions'["m1"])) <= 8
          /\ Remaining(missions'["m1"]) = {} => NextPhaseOf(missions'["m1"]) = "completed"
      ]_vars

\* the driver found "writing" and "initial_research" completed, the latter
\* with a checkpoint, and has brought the mission to the terminal marker with
\* six marks
C38_Witness ==
    /\ last_op = "mark_phase_completed"
    /\ "m1" \in DOMAIN missions
    /\ Len(missions["m1"].completed_phases) = 8
    /\ missions["m1"].completed_phases[1] = "writing"
    /\ missions["m1"].completed_phases[2] = "initial_research"
    /\ Remaining(missions["m1"]) = {}
    /\ "initial_research" \in DOMAIN missions["m1"].phase_checkpoint
    /\ Truthy(missions["m1"].phase_checkpoint["initial_research"])
    /\ GetNextPhase("m1") = "completed"

(***************************************************************************)
(* prepare_mission_start (services/mission_service.py).  mission_context   *)
(* is the manager's object of the mission, whose metadata holds at least   *)
(* the chat id, so existing_metadata is that very dict and every update of *)
(* it shows in the mission at once.  The call suspends only where it       *)
(* awaits log_execution_step after a group was created; the frame of a     *)
(* call keeps its arguments, the group it created and what it returned.    *)
(***************************************************************************)
\* lines 54-58
ToolSelection(settings) ==
    [ web_search |-> settings.use_web_search,
      local_rag |-> settings.document_group_id # None ]

AlreadyHasGeneratedGroupNever(metadata) == FALSE

\* line 70
AlreadyHasGeneratedGroup(metadata) == "generated_document_group_id" \in DOMAIN metadata

\* line 72
CreatesGroup(settings, metadata) ==
    settings.auto_create_document_group /\ ~AlreadyHasGeneratedGroup(metadata)

\* lines 114-121
GeneratedGroupMetadata(group_id) ==
    [ auto_created_group_id |-> group_id,
      generated_document_group_id |-> group_id,
      generated_document_group_name |-> "R: request" ]

\* lines 176-178
ResearchParams(settings) ==
    [ auto_create_document_group |-> settings.auto_create_document_group ]

\* lines 181-195 (the model, search and fetch settings of the user are left out)
ComprehensiveSettings(settings, metadata) ==
    [ use_web_search |-> settings.use_web_search,
      use_local_rag |-> settings.document_group_id # None,
      auto_create_document_group |-> settings.auto_create_document_group,
      document_group_id |-> settings.document_group_id,
      document_group_name |-> DictGet(metadata, "document_group_name", None),
      research_params |-> ResearchParams(settings),
      settings_captured_at_start |-> TRUE ]

SettingsMetadataSearchingGenerated(settings, metadata) ==
    LET searched == IF settings.document_group_id # None THEN settings.document_group_id
                    ELSE DictGet(metadata, "generated_document_group_id", None)
    IN  [ tool_selection |-> ToolSelection(settings),
          document_group_id |-> searched,
          use_web_search |-> settings.use_web_search,
          use_local_rag |-> searched # None,
          auto_create_document_group |-> settings.auto_create_document_group,
          research_params |-> ResearchParams(settings),
          comprehensive_settings |-> ComprehensiveSettings(settings, metadata),
          settings_captured_at_start |-> TRUE ]

\* lines 200-210
SettingsMetadata(settings, metadata) ==
    [ tool_selection |-> ToolSelection(settings),
      document_group_id |-> settings.document_group_id,
      use_web_search |-> settings.use_web_search,
      use_local_rag |-> settings.document_group_id # None,
      auto_create_document_group |-> settings.auto_create_document_group,
      research_params |-> ResearchParams(settings),
      comprehensive_settings |-> ComprehensiveSettings(settings, metadata),
      settings_captured_at_start |-> TRUE ]

\* lines 156-213: the settings go into the metadata
Prepared(mission, settings) ==
    [mission EXCEPT !.metadata = DictUpdate(@, SettingsMetadata(settings, @))]

\* lines 223-231
PrepareResult(settings, metadata) ==
    [ use_web_search |-> settings.use_web_search,
      document_group_id |-> settings.document_group_id,
      auto_create_document_group |-> settings.auto_create_document_group,
      tool_selection |-> ToolSelection(settings),
      generated_document_group_id |-> DictGet(metadata, "generated_document_group_id", None) ]

\* the frame of a call
PrepareFrame(pc, m, settings, created, failed, result) ==
    [ pc |-> pc, mission_id |-> m, settings |-> settings, created |-> created,
      failed |-> failed, result |-> result ]

\* uuid4 values
GeneratedGroupIds == {"g1", "g2", "g3"}

\* the entry log_execution_step is asked to append at lines 143-149
GroupCreatedEntry ==
    LogEntry("System", "Document Group Created", None, "Auto-created document group", "success")

\* prepare_mission_start up to its first suspension; fails: the creation of
\* the group raises
PrepareMissionStart(c, m, settings, log_to_frontend, fails, ok) ==
    /\ last_op' = "prepare_mission_start"
    /\ raised' = FALSE
    /\ c \notin DOMAIN prepares
    /\ m \in DOMAIN missions
    /\ LET wants == CreatesGroup(settings, missions[m].metadata)
       IN  IF wants /\ ~fails
           THEN \E group_id \in GeneratedGroupIds \ DOMAIN document_groups :
                  LET withGroup ==
                          [missions[m] EXCEPT
                               !.metadata = DictUpdate(@, GeneratedGroupMetadata(group_id))]
                  IN  /\ document_groups' = DictSet(document_groups, group_id, <<>>)
                      /\ IF log_to_frontend /\ ~LogSkipped(withGroup, GroupCreatedEntry.action)
                         THEN /\ missions' = [missions EXCEPT ![m] =
                                                  LogAppended(withGroup, GroupCreatedEntry)]
                              /\ prepares' = DictSet(prepares, c,
                                     PrepareFrame("logging", m, settings, group_id, FALSE,
                                                  EmptyDict))
                              /\ UNCHANGED <<db, last_write_ok>>
                         ELSE /\ missions' = [missions EXCEPT ![m] =
                                                  Prepared(withGroup, settings)]
                              /\ prepares' = DictSet(prepares, c,
                                     PrepareFrame("done", m, settings, group_id, FALSE,
                                                  PrepareResult(settings, missions'[m].metadata)))
                              /\ db' = Persist(m, missions'[m], ok)
                              /\ last_write_ok' = NoteWrite(m, ok)
           ELSE /\ missions' = [missions EXCEPT ![m] = Prepared(@, settings)]
                /\ prepares' = DictSet(prepares, c,
                       PrepareFrame("done", m, settings, None, wants /\ fails,
                                    PrepareResult(settings, missions'[m].metadata)))
                /\ db' = Persist(m, missions'[m], ok)
                /\ last_write_ok' = NoteWrite(m, ok)
                /\ UNCHANGED document_groups
    /\ UNCHANGED <<mission_semaphores, boot, pending_writes, processed, documents>>
    /\ UNCHANGED statsVars
    /\ UNCHANGED govVars

\* prepare_mission_start resumed after log_execution_step (the mission is
\* still in memory): the store writes of the log entry and of the metadata
PrepareMissionStartResumed(c, ok) ==
    /\ last_op' = "prepare_mission_start_resumed"
    /\ raised' = FALSE
    /\ c \in DOMAIN prepares
    /\ prepares[c].pc = "logging"
    /\ prepares[c].mission_id \in DOMAIN missions
    /\ LET m == prepares[c].mission_id
           settings == prepares[c].settings
       IN  /\ missions' = [missions EXCEPT ![m] = Prepared(@, settings)]
           /\ prepares' = [prepares EXCEPT ![c].pc = "done",
                                           ![c].result =
                                               PrepareResult(settings, missions'[m].metadata)]
           /\ db' = Persist(m, missions'[m], ok)
           /\ last_write_ok' = NoteWrite(m, ok)
    /\ UNCHANGED <<mission_semaphores, boot, pending_writes, processed, documents,
                   document_groups>>
    /\ UNCHANGED statsVars
    /\ UNCHANGED govVars

(***************************************************************************)
(* Callers of prepare_mission_start for mission "m1", with and without a   *)
(* document group to search and with and without auto-collection.          *)
(***************************************************************************)
PrepareSettings ==
    [ use_web_search : {TRUE}, document_group_id : {None, "search1"},
      auto_create_document_group : BOOLEAN ]

PrepareStartStep == StartMission("m1", TRUE)

PrepareStep ==
    /\ Cardinality(DOMAIN prepares) < MaxPrepares
    /\ \E settings \in PrepareSettings, log_to_frontend \in BOOLEAN, fails \in BOOLEAN :
           PrepareMissionStart(Cardinality(DOMAIN prepares) + 1, "m1", settings,
                               log_to_frontend, fails, TRUE)

PrepareResumeStep == \E c \in DOMAIN prepares : PrepareMissionStartResumed(c, TRUE)

NextPrepare ==
    \/ PrepareStartStep
    \/ PrepareStep
    \/ PrepareResumeStep

SpecPrepare == Init /\ [][NextPrepare]_vars

\* the groups the calls made so far have created for the mission
GroupsCreatedFor(frames, m) ==
    {frames[c].created : c \in {c \in DOMAIN frames : frames[c].mission_id = m}} \ {None}

\* the call returns in this step
Returns(c) ==
    /\ c \in DOMAIN prepares'
    /\ prepares'[c].pc = "done"
    /\ c \in DOMAIN prepares => prepares[c].pc # "done"

\* C39: prepare_mission_start auto-creates at most one document group per
\* mission.  Whatever calls are made and however they interleave where they
\* await, at most one group has been created for the mission, a
\* generated_document_group_id once in the metadata is never replaced, and a
\* call whose group creation failed returns in the same step with the
\* settings stored in the metadata and no group created.
C39_AtMostOneGeneratedGroup ==
    [][ "m1" \in DOMAIN missions =>
          /\ Cardinality(GroupsCreatedFor(prepares', "m1")) <= 1
          /\ Cardinality(DOMAIN document_groups') <= 1
          /\ "generated_document_group_id" \in DOMAIN missions["m1"].metadata =>
                 /\ "generated_document_group_id" \in DOMAIN missions'["m1"].metadata
                 /\ missions'["m1"].metadata["generated_document_group_id"] =
                        missions["m1"].metadata["generated_document_group_id"]
          /\ \A c \in DOMAIN prepares' \ DOMAIN prepares :
                 prepares'[c].failed =>
                     /\ Returns(c)
                     /\ prepares'[c].created = None
                     /\ document_groups' = document_groups
                     /\ "tool_selection" \in DOMAIN missions'["m1"].metadata
                     /\ missions'["m1"].metadata["research_params"] =
                            ResearchParams(prepares'[c].settings)
                     /\ db'["m1"].metadata = missions'["m1"].metadata
      ]_vars

\* a first call created the group and is suspended in its log call while a
\* second call, also asking for auto-collection, has returned without
\* creating another
C39_Witness ==
    /\ DOMAIN prepares = {1, 2}
    /\ prepares[1].settings.auto_create_document_group
    /\ prepares[1].pc = "logging"
    /\ prepares[1].created # None
    /\ prepares[2].settings.auto_create_document_group
    /\ prepares[2].pc = "done"
    /\ prepares[2].created = None
    /\ ~prepares[2].failed
    /\ prepares[2].result.generated_document_group_id = prepares[1].created
    /\ DOMAIN document_groups = {prepares[1].created}

\* C40: auto-collection never enables document search.  When a call of
\* prepare_mission_start returns, tool_selection.local_rag (returned and in the
\* metadata) and metadata.use_local_rag are true exactly when the caller
\* supplied a document group to search, metadata.document_group_id and the
\* returned document_group_id are the supplied value, and the id of a group
\* created for the mission is in the metadata only under
\* generated_document_group_id and auto_created_group_id.
C40_AutoCollectionNeverSearches ==
    [][ \A c \in DOMAIN prepares' :
          Returns(c) =>
              LET settings == prepares'[c].settings
                  searching == settings.document_group_id # None
                  metadata == missions'[prepares'[c].mission_id].metadata
                  result == prepares'[c].result
              IN  /\ result.tool_selection.local_rag = searching
                  /\ metadata["tool_selection"].local_rag = searching
                  /\ metadata["use_local_rag"] = searching
                  /\ metadata["comprehensive_settings"].use_local_rag = searching
                  /\ metadata["document_group_id"] = settings.document_group_id
                  /\ metadata["comprehensive_settings"].document_group_id =
                         settings.document_group_id
                  /\ result.document_group_id = settings.document_group_id
                  /\ \A group_id \in GroupsCreatedFor(prepares', prepares'[c].mission_id) :
                         /\ metadata["generated_document_group_id"] = group_id
                         /\ metadata["auto_created_group_id"] = group_id
                         /\ metadata["document_group_id"] # group_id
                         /\ metadata["comprehensive_settings"].document_group_id # group_id
      ]_vars

\* a call that asked for auto-collection and named no group to search has
\* returned: the group exists and document search is off
C40_Witness ==
    /\ 1 \in DOMAIN prepares
    /\ prepares[1].pc = "done"
    /\ prepares[1].settings.auto_create_document_group
    /\ prepares[1].settings.document_group_id = None
    /\ prepares[1].created \in DOMAIN document_groups
    /\ missions["m1"].metadata["generated_document_group_id"] = prepares[1].created
    /\ ~missions["m1"].metadata["use_local_rag"]
    /\ ~prepares[1].result.tool_selection.local_rag

====
